---- MODULE Spec2Model ----
(***************************************************************************)
(* A model of the go-tensor-flow training engine: Matrix, the Dense, ReLU  *)
(* and Softmax layers, the MSE loss, the Adam and SGD optimizers and the   *)
(* Sequential orchestrator (Forward, Backward, UpdateWeights,              *)
(* TrainOnBatch, Fit, Predict, Evaluate).                                  *)
(*                                                                         *)
(* Numbers.  The program computes on float64.  The model computes on       *)
(* decimal floating point numbers m * 10^e whose mantissa keeps Digits     *)
(* significant digits; every arithmetic operation rounds its exact result  *)
(* to that precision (round half to even), as an IEEE operation does.      *)
(* A number is the record [m, e], kept canonical: zero is [0, 0] and a     *)
(* non-zero mantissa has no trailing zero.                                 *)
(*                                                                         *)
(* Indices.  Go indexes from 0, TLA+ sequences from 1: element k of a Go   *)
(* slice is element k+1 of the sequence.  Layer indices that the program   *)
(* prints or formats (error messages, optimizer identifiers) keep their    *)
(* Go value.                                                               *)
(***************************************************************************)
EXTENDS Integers, Sequences, FiniteSets, TLC

(***************************************************************************)
(* Bounds of the model.                                                    *)
(***************************************************************************)
\* significant decimal digits kept by an arithmetic operation
Digits == 3

\* calls made on the model in one run
MaxCalls == 2

\* rows and columns of the matrices passed to the model
MaxRows == 2

MaxCols == 2

\* samples of a data set, epochs and batch size passed to Fit
MaxSamples == 3

MaxEpochs == 2

MaxBatch == 2

\* height and width of the tensors passed to the convolution
MaxSize == 4

\* filters and input channels of the convolution
MaxFilters == 2

MaxChannels == 2

\* FilterSize, Stride and Padding of the convolution
MaxFilterSize == 3

MaxStride == 2

MaxPadding == 1

(***************************************************************************)
(* float64 arithmetic.                                                     *)
(***************************************************************************)
Abs(n) == IF n < 0 THEN -n ELSE n

Sign(n) == IF n < 0 THEN -1 ELSE 1

\* 10^k for 0 <= k <= 9
Pow10(k) ==
    CASE k <= 0 -> 1 [] k = 1 -> 10 [] k = 2 -> 100 [] k = 3 -> 1000 [] k = 4 -> 10000
      [] k = 5 -> 100000 [] k = 6 -> 1000000 [] k = 7 -> 10000000
      [] k = 8 -> 100000000 [] k >= 9 -> 1000000000

\* the number of decimal digits of the natural number n (0 has none)
Digits10(n) ==
    CASE n = 0 -> 0 [] n >= 1 /\ n < 10 -> 1 [] n >= 10 /\ n < 100 -> 2
      [] n >= 100 /\ n < 1000 -> 3 [] n >= 1000 /\ n < 10000 -> 4
      [] n >= 10000 /\ n < 100000 -> 5 [] n >= 100000 /\ n < 1000000 -> 6
      [] n >= 1000000 /\ n < 10000000 -> 7 [] n >= 10000000 /\ n < 100000000 -> 8
      [] n >= 100000000 /\ n < 1000000000 -> 9 [] n >= 1000000000 -> 10

RECURSIVE StripZeros(_, _)
StripZeros(m, e) ==
    IF m = 0 THEN [m |-> 0, e |-> 0]
    ELSE IF m % 10 = 0 THEN StripZeros(m \div 10, e + 1)
    ELSE [m |-> m, e |-> e]

\* q + 1 when the remainder r of a division by p rounds q up (half to even)
RoundUp(q, r, p, sticky) ==
    IF 2 * r > p \/ (2 * r = p /\ (sticky \/ q % 2 = 1)) THEN q + 1 ELSE q

\* the natural number n * 10^e with its last k digits rounded away
DropDigits(n, e, sticky, k) ==
    IF k <= 0 THEN StripZeros(n, e)
    ELSE StripZeros(RoundUp(n \div Pow10(k), n % Pow10(k), Pow10(k), sticky), e + k)

\* the natural number n * 10^e rounded to Digits digits, half to even;
\* sticky tells that the exact value lies strictly above n * 10^e
RoundNat(n, e, sticky) == DropDigits(n, e, sticky, Digits10(n) - Digits)

\* the number r with the sign s
Signed(s, r) == [m |-> s * r.m, e |-> r.e]

FNeg(a) == [m |-> -a.m, e |-> a.e]

\* the canonical number nearest to m * 10^e
FNorm(m, e) == IF m < 0 THEN FNeg(RoundNat(-m, e, FALSE)) ELSE RoundNat(m, e, FALSE)

\* the float64 of an integer literal, and of the decimal literal m * 10^e
F(n) == FNorm(n, 0)

FDec(m, e) == FNorm(m, e)

Zero == [m |-> 0, e |-> 0]

\* a + b.  The operand whose digits all lie below the precision of the
\* other one is absorbed, as in float64.
FAdd(a, b) ==
    IF a.m = 0 THEN b
    ELSE IF b.m = 0 THEN a
    ELSE LET lo == IF a.e < b.e THEN a.e ELSE b.e
             da == a.e - lo
             db == b.e - lo
         IN  IF Digits10(Abs(a.m)) + da > 9 THEN a
             ELSE IF Digits10(Abs(b.m)) + db > 9 THEN b
             ELSE FNorm(a.m * Pow10(da) + b.m * Pow10(db), lo)

FSub(a, b) == IF b.m = 0 THEN a ELSE FAdd(a, FNeg(b))

FMul(a, b) == IF a.m = 0 \/ b.m = 0 THEN Zero ELSE FNorm(a.m * b.m, a.e + b.e)

\* the natural number am / bm, scaled by 10^e
Quotient(am, bm, e) == RoundNat(am \div bm, e, am % bm # 0)

\* a / b for b # 0; the dividend is first scaled to 8 digits
FDiv(a, b) ==
    IF b.m # 0 /\ a.m = 0 THEN Zero
    ELSE Signed(Sign(a.m) * Sign(b.m),
                Quotient(Abs(a.m) * Pow10(8 - Digits10(Abs(a.m))), Abs(b.m),
                         a.e - (8 - Digits10(Abs(a.m))) - b.e))

FGt(a, b) == FSub(a, b).m > 0

FLt(a, b) == FSub(a, b).m < 0

FMaxOf(a, b) == IF FGt(b, a) THEN b ELSE a

\* the largest c with (200 * c)^2 <= n, for a natural number n < 10^9
SqrtBlock(n) ==
    CHOOSE c \in 0..158 : 200 * c * 200 * c <= n /\ 200 * (c + 1) * 200 * (c + 1) > n

\* the integer square root of n, which lies in lo..lo+199
ISqrtFrom(n, lo) == CHOOSE s \in lo..(lo + 199) : s * s <= n /\ (s + 1) * (s + 1) > n

\* the integer square root of the natural number n < 10^9
ISqrt(n) == ISqrtFrom(n, 200 * SqrtBlock(n))

\* the square root of n * 10^e, e even, given s = ISqrt(n)
RootOf(n, s, e) == RoundNat(s, e \div 2, s * s # n)

\* the square root of a.m * 10^a.e written as (a.m * 10^k) * 10^(a.e - k)
SqrtShifted(a, k) == RootOf(a.m * Pow10(k), ISqrt(a.m * Pow10(k)), a.e - k)

\* math.Sqrt(a) for a >= 0; the shift makes the exponent even
FSqrt(a) ==
    IF a.m = 0 THEN Zero
    ELSE SqrtShifted(a, IF (a.e - (9 - Digits10(a.m))) % 2 = 0
                        THEN 9 - Digits10(a.m) ELSE 8 - Digits10(a.m))

\* the loop of math.Pow over the bits of the exponent:
\* for i != 0 { if i&1 == 1 { a1 *= x1 }; x1 *= x1; i >>= 1 }
RECURSIVE PowLoop(_, _, _)
PowLoop(a1, x1, i) ==
    IF i = 0 THEN a1
    ELSE PowLoop(IF i % 2 = 1 THEN FMul(a1, x1) ELSE a1, FMul(x1, x1), i \div 2)

\* math.Pow(b, t) for a natural number t
FPow(b, t) == PowLoop(F(1), b, t)

\* the partial sum  sum_{k = i..n} x^k / k!  given term = x^i / i!
RECURSIVE ExpSeries(_, _, _, _)
ExpSeries(x, term, i, n) ==
    IF i > n THEN Zero
    ELSE FAdd(term, ExpSeries(x, FDiv(FMul(term, x), F(i + 1)), i + 1, n))

\* e^x from the series s of e^|x|
ExpOf(x, s) == IF x.m < 0 THEN FDiv(F(1), s) ELSE s

\* math.Exp(x): the series of e^|x|, inverted for x < 0
FExp(x) == ExpOf(x, ExpSeries([m |-> Abs(x.m), e |-> x.e], F(1), 0, 4 * Digits))

(***************************************************************************)
(* Matrix.                                                                 *)
(***************************************************************************)
\* fmt's %d of a natural number
Digit(d) ==
    CASE d = 0 -> "0" [] d = 1 -> "1" [] d = 2 -> "2" [] d = 3 -> "3" [] d = 4 -> "4"
      [] d = 5 -> "5" [] d = 6 -> "6" [] d = 7 -> "7" [] d = 8 -> "8" [] d = 9 -> "9"

RECURSIVE Itoa(_)
Itoa(n) == IF n < 10 THEN Digit(n) ELSE Itoa(n \div 10) \o Digit(n % 10)

\* the slice whose elements are f[1], ..., f[n], each computed once
MakeSlice(f) == f \o <<>>

\* the nil *Matrix
Nil == [nil |-> TRUE]

NewMatrix(rows, cols) ==
    [Rows |-> rows, Cols |-> cols,
     Data |-> MakeSlice([i \in 1..rows |-> MakeSlice([j \in 1..cols |-> Zero])])]

\* Data[r][c] is inside the slices (r, c count from 1)
InRange(m, r, c) == r >= 1 /\ r <= Len(m.Data) /\ c >= 1 /\ c <= Len(m.Data[r])

\* sum := 0.0; for k := 0; k < n; k++ { sum += term[k] }
RECURSIVE SumLoop(_, _)
SumLoop(term, n) == IF n = 0 THEN Zero ELSE FAdd(SumLoop(term, n - 1), term[n])

\* Matrix.Multiply: [err, val], err = "" for a nil error
Multiply(m, other) ==
    IF m.Cols # other.Rows
    THEN [err |-> "incompatible dimensions: (" \o Itoa(m.Rows) \o ", " \o Itoa(m.Cols)
                  \o ") and (" \o Itoa(other.Rows) \o ", " \o Itoa(other.Cols) \o ")",
          val |-> Nil]
    ELSE [err |-> "",
          val |-> [Rows |-> m.Rows, Cols |-> other.Cols,
                   Data |-> MakeSlice([i \in 1..m.Rows |->
                               MakeSlice([j \in 1..other.Cols |->
                       SumLoop(MakeSlice([k \in 1..m.Cols |->
                                   FMul(m.Data[i][k], other.Data[k][j])]), m.Cols)])])]]

(***************************************************************************)
(* Activation functions.                                                   *)
(***************************************************************************)
ReLU(x) == IF FGt(x, Zero) THEN x ELSE Zero

ReLUMatrix(m) ==
    [Rows |-> m.Rows, Cols |-> m.Cols,
     Data |-> MakeSlice([i \in 1..m.Rows |->
                 MakeSlice([j \in 1..m.Cols |-> ReLU(m.Data[i][j])])])]

\* max := input[0]; for _, v := range input { if v > max { max = v } }
RECURSIVE MaxLoop(_, _)
MaxLoop(input, n) ==
    IF n = 0 THEN input[1] ELSE FMaxOf(MaxLoop(input, n - 1), input[n])

\* expValues[i] = math.Exp(v - max)
ExpValues(input, max) ==
    MakeSlice([i \in 1..Len(input) |-> FExp(FSub(input[i], max))])

\* output[i] = expValues[i] / sum
Normalized(expValues, sum) ==
    MakeSlice([i \in 1..Len(expValues) |-> FDiv(expValues[i], sum)])

\* sum += expValues[i], then the division loop
SumAndNormalize(expValues) == Normalized(expValues, SumLoop(expValues, Len(expValues)))

\* Softmax of a non-empty slice
Softmax(input) == SumAndNormalize(ExpValues(input, MaxLoop(input, Len(input))))

\* SoftmaxMatrix indexes input[0] of every row: an empty row panics
SoftmaxMatrixPanics(m) == \E i \in 1..m.Rows : Len(m.Data[i]) = 0

SoftmaxMatrix(m) ==
    [Rows |-> m.Rows, Cols |-> m.Cols,
     Data |-> MakeSlice([i \in 1..m.Rows |-> Softmax(m.Data[i])])]

(***************************************************************************)
(* Layers.  A layer operation yields [st, err, layer, out]: st is "ok",    *)
(* "error" (an error is returned, err is its text) or "panic" (a runtime   *)
(* panic: nil dereference or index out of range), layer is the layer       *)
(* afterwards, out the returned matrix.                                    *)
(***************************************************************************)
\* NewDense with the weights drawn by rand.NormFloat64 given as `weights`
NewDense(inputSize, outputSize, weights) ==
    [kind |-> "Dense", InputSize |-> inputSize, OutputSize |-> outputSize,
     Weights |-> weights, Bias |-> NewMatrix(1, outputSize),
     lastInput |-> Nil,
     weightsGrad |-> NewMatrix(inputSize, outputSize),
     biasGrad |-> NewMatrix(1, outputSize)]

NewReLULayer == [kind |-> "ReLU", lastInput |-> Nil]

NewSoftmaxLayer == [kind |-> "Softmax", lastOutput |-> Nil]

\* matmul plus the bias row, added to every row
AddBias(output, bias) ==
    [output EXCEPT !.Data =
        MakeSlice([i \in 1..output.Rows |-> MakeSlice([j \in 1..output.Cols |->
            FAdd(output.Data[i][j], bias.Data[1][j])])])]

\* Dense.Forward after the multiplication returned mul
DenseOutput(d, input, mul) ==
    IF mul.err # ""
    THEN [st |-> "error", err |-> mul.err,
          layer |-> [d EXCEPT !.lastInput = input], out |-> Nil]
    ELSE [st |-> "ok", err |-> "",
          layer |-> [d EXCEPT !.lastInput = input], out |-> AddBias(mul.val, d.Bias)]

\* mutant: the input is cached before its size is checked
DenseForwardCachesFirst(d, input) ==
    IF input.Cols # d.InputSize
    THEN [st |-> "error",
          err |-> "input size mismatch: got " \o Itoa(input.Cols)
                  \o ", expected " \o Itoa(d.InputSize),
          layer |-> [d EXCEPT !.lastInput = input], out |-> Nil]
    ELSE DenseOutput(d, input, Multiply(input, d.Weights))

\* Dense.Forward: [st, err, layer, out]
DenseForward(d, input) ==
    IF input.Cols # d.InputSize
    THEN [st |-> "error",
          err |-> "input size mismatch: got " \o Itoa(input.Cols)
                  \o ", expected " \o Itoa(d.InputSize),
          layer |-> d, out |-> Nil]
    ELSE DenseOutput(d, input, Multiply(input, d.Weights))

\* Dense.Backward dereferences d.lastInput inside its first loop and indexes
\* lastInput.Data[b][i] and gradOutput.Data[b][j] for b < lastInput.Rows
DenseBackwardPanics(d, gradOutput) ==
    /\ d.InputSize > 0 /\ d.OutputSize > 0
    /\ \/ d.lastInput = Nil
       \/ \E i \in 1..d.InputSize, j \in 1..d.OutputSize, b \in 1..d.lastInput.Rows :
             ~InRange(d.lastInput, b, i) \/ ~InRange(gradOutput, b, j)

\* mutant: the weight gradient is stored transposed, OutputSize x InputSize
WeightsGradTransposed(d, gradOutput, batchSize) ==
    MakeSlice([j \in 1..d.OutputSize |-> MakeSlice([i \in 1..d.InputSize |->
        FDiv(SumLoop(MakeSlice([b \in 1..d.lastInput.Rows |->
                        FMul(d.lastInput.Data[b][i], gradOutput.Data[b][j])]),
                     d.lastInput.Rows),
             batchSize)])])

\* dL/dW = input^T @ gradOutput, divided by the batch size
WeightsGrad(d, gradOutput, batchSize) ==
    MakeSlice([i \in 1..d.InputSize |-> MakeSlice([j \in 1..d.OutputSize |->
        FDiv(SumLoop(MakeSlice([b \in 1..d.lastInput.Rows |->
                        FMul(d.lastInput.Data[b][i], gradOutput.Data[b][j])]),
                     d.lastInput.Rows),
             batchSize)])])

\* dL/db = the column sums of gradOutput, divided by the batch size
BiasGrad(d, gradOutput, batchSize) ==
    MakeSlice([j \in 1..d.OutputSize |->
        FDiv(SumLoop(MakeSlice([i \in 1..gradOutput.Rows |-> gradOutput.Data[i][j]]),
                     gradOutput.Rows),
             batchSize)])

\* dL/dinput = gradOutput @ weights^T
GradInput(d, gradOutput) ==
    [Rows |-> gradOutput.Rows, Cols |-> d.InputSize,
     Data |-> MakeSlice([i \in 1..gradOutput.Rows |-> MakeSlice([j \in 1..d.InputSize |->
         SumLoop(MakeSlice([k \in 1..d.OutputSize |->
                     FMul(gradOutput.Data[i][k], d.Weights.Data[j][k])]),
                 d.OutputSize)])])]

\* the three gradients for batchSize := float64(gradOutput.Rows)
DenseGradients(d, gradOutput, batchSize) ==
    [st |-> "ok", err |-> "",
     layer |-> [d EXCEPT !.weightsGrad.Data = WeightsGrad(d, gradOutput, batchSize),
                         !.biasGrad.Data = <<BiasGrad(d, gradOutput, batchSize)>>],
     out |-> GradInput(d, gradOutput)]

\* Dense.Backward: [st, err, layer, out]
DenseBackward(d, gradOutput) ==
    IF gradOutput.Cols # d.OutputSize
    THEN [st |-> "error", err |-> "gradient size mismatch", layer |-> d, out |-> Nil]
    ELSE IF DenseBackwardPanics(d, gradOutput)
    THEN [st |-> "panic", err |-> "", layer |-> d, out |-> Nil]
    ELSE DenseGradients(d, gradOutput, F(gradOutput.Rows))

ReLUForward(r, input) ==
    [st |-> "ok", err |-> "",
     layer |-> [r EXCEPT !.lastInput = input], out |-> ReLUMatrix(input)]

\* ReLULayer.Backward reads r.lastInput.Data[i][j] for every cell of gradOutput
ReLUBackwardPanics(r, gradOutput) ==
    \E i \in 1..gradOutput.Rows, j \in 1..gradOutput.Cols :
        r.lastInput = Nil \/ ~InRange(r.lastInput, i, j)

\* mutant: the gradient also passes where the cached input is zero
ReLUBackwardNonNegative(r, gradOutput) ==
    IF ReLUBackwardPanics(r, gradOutput)
    THEN [st |-> "panic", err |-> "", layer |-> r, out |-> Nil]
    ELSE [st |-> "ok", err |-> "", layer |-> r,
          out |-> [Rows |-> gradOutput.Rows, Cols |-> gradOutput.Cols,
                   Data |-> MakeSlice([i \in 1..gradOutput.Rows |->
                               MakeSlice([j \in 1..gradOutput.Cols |->
                       IF ~FLt(r.lastInput.Data[i][j], Zero)
                       THEN gradOutput.Data[i][j] ELSE Zero])])]]

ReLUBackward(r, gradOutput) ==
    IF ReLUBackwardPanics(r, gradOutput)
    THEN [st |-> "panic", err |-> "", layer |-> r, out |-> Nil]
    ELSE [st |-> "ok", err |-> "", layer |-> r,
          out |-> [Rows |-> gradOutput.Rows, Cols |-> gradOutput.Cols,
                   Data |-> MakeSlice([i \in 1..gradOutput.Rows |->
                               MakeSlice([j \in 1..gradOutput.Cols |->
                       IF FGt(r.lastInput.Data[i][j], Zero)
                       THEN gradOutput.Data[i][j] ELSE Zero])])]]

\* s.lastOutput = output; return output, nil
SoftmaxOutput(s, output) ==
    [st |-> "ok", err |-> "", layer |-> [s EXCEPT !.lastOutput = output], out |-> output]

\* SoftmaxLayer.Forward: [st, err, layer, out]
SoftmaxForward(s, input) ==
    IF SoftmaxMatrixPanics(input)
    THEN [st |-> "panic", err |-> "", layer |-> s, out |-> Nil]
    ELSE SoftmaxOutput(s, SoftmaxMatrix(input))

SoftmaxBackward(s, gradOutput) ==
    [st |-> "ok", err |-> "", layer |-> s, out |-> gradOutput]

\* dispatch through the Layer interface
LayerForward(l, input) ==
    CASE l.kind = "Dense" -> DenseForward(l, input)
      [] l.kind = "ReLU" -> ReLUForward(l, input)
      [] l.kind = "Softmax" -> SoftmaxForward(l, input)

LayerBackward(l, gradOutput) ==
    CASE l.kind = "Dense" -> DenseBackward(l, gradOutput)
      [] l.kind = "ReLU" -> ReLUBackward(l, gradOutput)
      [] l.kind = "Softmax" -> SoftmaxBackward(l, gradOutput)

GetParams(l) == IF l.kind = "Dense" THEN <<l.Weights, l.Bias>> ELSE <<>>

GetGrads(l) == IF l.kind = "Dense" THEN <<l.weightsGrad, l.biasGrad>> ELSE <<>>

GetParamNames(l) == IF l.kind = "Dense" THEN <<"weights", "bias">> ELSE <<>>

\* the layer with its i-th parameter matrix overwritten by the values of m
SetParam(l, i, m) ==
    IF i = 1 THEN [l EXCEPT !.Weights.Data = m.Data] ELSE [l EXCEPT !.Bias.Data = m.Data]

(***************************************************************************)
(* Loss: MSE.  [err, val].                                                 *)
(***************************************************************************)
\* the cells of a rows x cols matrix in the order of the nested loops
CellRow(c, cols) == ((c - 1) \div cols) + 1

CellCol(c, cols) == ((c - 1) % cols) + 1

\* diff * diff
Square(diff) == FMul(diff, diff)

\* MSE.Forward: [err, val]; the loss is the sum of the squared differences,
\* taken row by row, divided by 2 * float64(rows * cols)
MSEForward(predictions, targets) ==
    IF predictions.Rows # targets.Rows \/ predictions.Cols # targets.Cols
    THEN [err |-> "shape mismatch", val |-> Zero]
    ELSE [err |-> "",
          val |-> FDiv(SumLoop(MakeSlice([c \in 1..(predictions.Rows * predictions.Cols) |->
                           Square(FSub(targets.Data[CellRow(c, predictions.Cols)]
                                                   [CellCol(c, predictions.Cols)],
                                       predictions.Data[CellRow(c, predictions.Cols)]
                                                       [CellCol(c, predictions.Cols)]))]),
                               predictions.Rows * predictions.Cols),
                       FMul(F(2), F(predictions.Rows * predictions.Cols)))]

\* mutant: the gradient is (targets - predictions) / n
MSEBackwardTargetsMinusPredictions(predictions, targets) ==
    IF predictions.Rows # targets.Rows \/ predictions.Cols # targets.Cols
    THEN [err |-> "shape mismatch", val |-> Nil]
    ELSE [err |-> "",
          val |-> [Rows |-> predictions.Rows, Cols |-> predictions.Cols,
                   Data |-> MakeSlice([i \in 1..predictions.Rows |->
                               MakeSlice([j \in 1..predictions.Cols |->
                       FDiv(FSub(targets.Data[i][j], predictions.Data[i][j]),
                            F(predictions.Rows * predictions.Cols))])])]]

MSEBackward(predictions, targets) ==
    IF predictions.Rows # targets.Rows \/ predictions.Cols # targets.Cols
    THEN [err |-> "shape mismatch", val |-> Nil]
    ELSE [err |-> "",
          val |-> [Rows |-> predictions.Rows, Cols |-> predictions.Cols,
                   Data |-> MakeSlice([i \in 1..predictions.Rows |->
                               MakeSlice([j \in 1..predictions.Cols |->
                       FDiv(FNeg(FSub(targets.Data[i][j], predictions.Data[i][j])),
                            F(predictions.Rows * predictions.Cols))])])]]

(***************************************************************************)
(* Optimizers.  The maps M, V and Velocity are functions whose domain is   *)
(* the set of keys present.  Update yields [st, opt, updated, t]: the      *)
(* optimizer afterwards, the returned matrix and, for Adam, the step       *)
(* counter used in the bias correction.                                    *)
(***************************************************************************)
NewAdamOptimizer(learningRate) ==
    [kind |-> "Adam", LearningRate |-> learningRate,
     Beta1 |-> FDec(9, -1), Beta2 |-> FDec(999, -3), Epsilon |-> FDec(1, -8),
     T |-> 0, M |-> <<>>, V |-> <<>>]

NewSGD(learningRate, momentum) ==
    [kind |-> "SGD", LearningRate |-> learningRate, Momentum |-> momentum,
     Velocity |-> <<>>]

\* map[paramName] = m
MapPut(map, paramName, m) == (paramName :> m) @@ map

\* the update loops index acc.Data[i][j] and gradients.Data[i][j] for every
\* cell of params
UpdatePanics(acc, params, gradients) ==
    \E i \in 1..params.Rows, j \in 1..params.Cols :
        ~InRange(acc, i, j) \/ ~InRange(gradients, i, j)

\* the accumulator of paramName: created zero-filled, with the shape of
\* params, when the nil test finds it absent
Accumulator(map, paramName, params, absent) ==
    IF absent THEN NewMatrix(params.Rows, params.Cols) ELSE map[paramName]

\* m = Beta1 * m + (1 - Beta1) * g
FirstMoment(adam, m, params, gradients) ==
    MakeSlice([i \in 1..params.Rows |-> MakeSlice([j \in 1..params.Cols |->
        FAdd(FMul(adam.Beta1, m.Data[i][j]),
             FMul(FSub(F(1), adam.Beta1), gradients.Data[i][j]))])])

\* v = Beta2 * v + (1 - Beta2) * g * g
SecondMoment(adam, v, params, gradients) ==
    MakeSlice([i \in 1..params.Rows |-> MakeSlice([j \in 1..params.Cols |->
        FAdd(FMul(adam.Beta2, v.Data[i][j]),
             FMul(FMul(FSub(F(1), adam.Beta2), gradients.Data[i][j]),
                  gradients.Data[i][j]))])])

\* mHat = m / c1, vHat = v / c2 for the bias corrections c1 = 1 - Beta1^t and
\* c2 = 1 - Beta2^t; updated = params - LearningRate * mHat / (sqrt(vHat) + Epsilon)
AdamUpdated(adam, params, mData, vData, c1, c2) ==
    [Rows |-> params.Rows, Cols |-> params.Cols,
     Data |-> MakeSlice([i \in 1..params.Rows |-> MakeSlice([j \in 1..params.Cols |->
         FSub(params.Data[i][j],
              FDiv(FMul(adam.LearningRate, FDiv(mData[i][j], c1)),
                   FAdd(FSqrt(FDiv(vData[i][j], c2)), adam.Epsilon)))])])]

\* the outcome of step t with the new moments mData and vData
AdamMoments(adam, paramName, params, t, m0, v0, mData, vData) ==
    [st |-> "ok",
     opt |-> [adam EXCEPT !.T = t,
                          !.M = MapPut(adam.M, paramName, [m0 EXCEPT !.Data = mData]),
                          !.V = MapPut(adam.V, paramName, [v0 EXCEPT !.Data = vData])],
     updated |-> AdamUpdated(adam, params, mData, vData,
                             FSub(F(1), FPow(adam.Beta1, t)),
                             FSub(F(1), FPow(adam.Beta2, t))),
     t |-> t]

\* step t on the accumulators m0 and v0 of paramName.  A loop that indexes
\* past a slice panics with T incremented and the accumulators created.
AdamAt(adam, paramName, params, gradients, t, m0, v0) ==
    IF UpdatePanics(m0, params, gradients) \/ UpdatePanics(v0, params, gradients)
    THEN [st |-> "panic",
          opt |-> [adam EXCEPT !.T = t, !.M = MapPut(adam.M, paramName, m0),
                               !.V = MapPut(adam.V, paramName, v0)],
          updated |-> Nil, t |-> t]
    ELSE AdamMoments(adam, paramName, params, t, m0, v0,
                     FirstMoment(adam, m0, params, gradients),
                     SecondMoment(adam, v0, params, gradients))

\* velocity = Momentum * velocity - LearningRate * g
\* mutant: the old velocity is carried over whole, whatever the momentum
VelocityDataUnscaled(sgd, velocity, params, gradients) ==
    MakeSlice([i \in 1..params.Rows |-> MakeSlice([j \in 1..params.Cols |->
        FSub(velocity.Data[i][j],
             FMul(sgd.LearningRate, gradients.Data[i][j]))])])

VelocityData(sgd, velocity, params, gradients) ==
    MakeSlice([i \in 1..params.Rows |-> MakeSlice([j \in 1..params.Cols |->
        FSub(FMul(sgd.Momentum, velocity.Data[i][j]),
             FMul(sgd.LearningRate, gradients.Data[i][j]))])])

\* updated = params + velocity
SGDUpdated(sgd, paramName, params, vel0, velData) ==
    [st |-> "ok",
     opt |-> [sgd EXCEPT !.Velocity =
                 MapPut(sgd.Velocity, paramName, [vel0 EXCEPT !.Data = velData])],
     updated |-> [Rows |-> params.Rows, Cols |-> params.Cols,
                  Data |-> MakeSlice([i \in 1..params.Rows |->
                              MakeSlice([j \in 1..params.Cols |->
                                  FAdd(params.Data[i][j], velData[i][j])])])],
     t |-> 0]

\* the update on the velocity vel0 of paramName
SGDAt(sgd, paramName, params, gradients, vel0) ==
    IF UpdatePanics(vel0, params, gradients)
    THEN [st |-> "panic",
          opt |-> [sgd EXCEPT !.Velocity = MapPut(sgd.Velocity, paramName, vel0)],
          updated |-> Nil, t |-> 0]
    ELSE SGDUpdated(sgd, paramName, params, vel0,
                    VelocityData(sgd, vel0, params, gradients))

\* mutant: the step counter advances only at the first sight of an identifier
AdamUpdateCountsFirstSight(adam, paramName, params, gradients) ==
    AdamAt(adam, paramName, params, gradients,
           IF paramName \notin DOMAIN adam.M THEN adam.T + 1 ELSE adam.T,
           Accumulator(adam.M, paramName, params, paramName \notin DOMAIN adam.M),
           Accumulator(adam.V, paramName, params, paramName \notin DOMAIN adam.M))

AdamUpdate(adam, paramName, params, gradients) ==
    AdamAt(adam, paramName, params, gradients, adam.T + 1,
           Accumulator(adam.M, paramName, params, paramName \notin DOMAIN adam.M),
           Accumulator(adam.V, paramName, params, paramName \notin DOMAIN adam.M))

\* mutant: the velocity is allocated anew on every call
SGDUpdateFreshVelocity(sgd, paramName, params, gradients) ==
    SGDAt(sgd, paramName, params, gradients, NewMatrix(params.Rows, params.Cols))

SGDUpdate(sgd, paramName, params, gradients) ==
    SGDAt(sgd, paramName, params, gradients,
          Accumulator(sgd.Velocity, paramName, params,
                      paramName \notin DOMAIN sgd.Velocity))

\* dispatch through the Optimizer interface
OptimizerUpdate(opt, paramName, params, gradients) ==
    IF opt.kind = "Adam" THEN AdamUpdate(opt, paramName, params, gradients)
    ELSE SGDUpdate(opt, paramName, params, gradients)

(***************************************************************************)
(* Sequential.  The model records the calls a Sequential method makes on   *)
(* its layers, loss and optimizer as a sequence of events                  *)
(* [op, layer, id, arg, arg2, ret, t]: op names the callee, layer is the   *)
(* Go index of the layer, id the optimizer identifier, arg and arg2 the    *)
(* arguments, ret the returned value (Nil when an error is returned or the *)
(* call panics), t Adam's step counter during an Update.                   *)
(***************************************************************************)
Ev(op, layer, id, arg, arg2, ret, t) ==
    [op |-> op, layer |-> layer, id |-> id, arg |-> arg, arg2 |-> arg2,
     ret |-> ret, t |-> t]

\* fmt.Errorf("error in layer %d: %v", i, err)
\* mutant: the error of a forward pass names the layer after the failing one
LayerErrorOneBased(i, err) == "error in layer " \o Itoa(i + 1) \o ": " \o err

LayerError(i, err) == "error in layer " \o Itoa(i) \o ": " \o err

\* Sequential.Forward from layer i on: [st, err, Layers, out, trace]
RECURSIVE ForwardLoop(_, _, _, _)

\* the outcome r of layers[i].Forward(output)
ForwardStep(layers, i, output, trace, r) ==
    IF r.st = "ok"
    THEN ForwardLoop([layers EXCEPT ![i] = r.layer], i + 1, r.out,
                     Append(trace, Ev("Forward", i - 1, "", output, Nil, r.out, 0)))
    ELSE [st |-> r.st,
          err |-> IF r.st = "error" THEN LayerError(i - 1, r.err) ELSE "",
          Layers |-> [layers EXCEPT ![i] = r.layer], out |-> Nil,
          trace |-> Append(trace, Ev("Forward", i - 1, "", output, Nil, r.out, 0))]

ForwardLoop(layers, i, output, trace) ==
    IF i > Len(layers)
    THEN [st |-> "ok", err |-> "", Layers |-> layers, out |-> output, trace |-> trace]
    ELSE ForwardStep(layers, i, output, trace, LayerForward(layers[i], output))

SeqForward(layers, input) == ForwardLoop(layers, 1, input, <<>>)

\* Sequential.Backward from layer i down: [st, err, Layers, trace]
RECURSIVE BackwardLoop(_, _, _, _)

\* the outcome r of layers[i].Backward(grad)
BackwardStep(layers, i, grad, trace, r) ==
    IF r.st = "ok"
    THEN BackwardLoop([layers EXCEPT ![i] = r.layer], i - 1, r.out,
                      Append(trace, Ev("Backward", i - 1, "", grad, Nil, r.out, 0)))
    ELSE [st |-> r.st,
          err |-> IF r.st = "error"
                  THEN "error in backward pass at layer " \o Itoa(i - 1) \o ": " \o r.err
                  ELSE "",
          Layers |-> [layers EXCEPT ![i] = r.layer],
          trace |-> Append(trace, Ev("Backward", i - 1, "", grad, Nil, r.out, 0))]

BackwardLoop(layers, i, grad, trace) ==
    IF i < 1
    THEN [st |-> "ok", err |-> "", Layers |-> layers, trace |-> trace]
    ELSE BackwardStep(layers, i, grad, trace, LayerBackward(layers[i], grad))

\* mutant: the backward pass starts below the last layer
SeqBackwardSkipsLastLayer(layers, gradOutput) ==
    BackwardLoop(layers, Len(layers) - 1, gradOutput, <<>>)

SeqBackward(layers, gradOutput) == BackwardLoop(layers, Len(layers), gradOutput, <<>>)

\* fmt.Sprintf("layer_%d_%s", layerIdx, paramNames[i])
\* mutant: the identifier leaves out the layer index
ParamIdNameOnly(layerIdx, paramName) == "layer_" \o paramName

ParamId(layerIdx, paramName) == "layer_" \o Itoa(layerIdx) \o "_" \o paramName

\* Sequential.UpdateWeights from parameter i of layer li on:
\* [st, Layers, Optimizer, trace]; layerIdx is li - 1
RECURSIVE UpdateLoop(_, _, _, _, _)

\* the outcome u of Optimizer.Update for parameter i of layer li: the
\* updated cells are copied into the parameter
UpdateParam(layers, li, i, trace, paramName, u) ==
    IF u.st # "ok"
    THEN [st |-> u.st, Layers |-> layers, Optimizer |-> u.opt,
          trace |-> Append(trace, Ev("Update", li - 1, paramName, GetParams(layers[li])[i],
                                     GetGrads(layers[li])[i], u.updated, u.t))]
    ELSE UpdateLoop([layers EXCEPT ![li] = SetParam(@, i, u.updated)], u.opt, li, i + 1,
                    Append(trace, Ev("Update", li - 1, paramName, GetParams(layers[li])[i],
                                     GetGrads(layers[li])[i], u.updated, u.t)))

\* the update of parameter i of layer li under the identifier paramName
UpdateNamed(layers, opt, li, i, trace, paramName) ==
    UpdateParam(layers, li, i, trace, paramName,
                OptimizerUpdate(opt, paramName, GetParams(layers[li])[i],
                                GetGrads(layers[li])[i]))

UpdateLoop(layers, opt, li, i, trace) ==
    IF li > Len(layers)
    THEN [st |-> "ok", Layers |-> layers, Optimizer |-> opt, trace |-> trace]
    ELSE IF i > Len(GetParams(layers[li]))
    THEN UpdateLoop(layers, opt, li + 1, 1, trace)
    ELSE UpdateNamed(layers, opt, li, i, trace,
                     ParamId(li - 1, GetParamNames(layers[li])[i]))

SeqUpdateWeights(layers, opt) == UpdateLoop(layers, opt, 1, 1, <<>>)

\* TrainOnBatch after UpdateWeights returned u: return lossValue, nil
TrainUpdated(lf, trace, b, u) ==
    [st |-> u.st, err |-> "", Layers |-> u.Layers, Optimizer |-> u.Optimizer,
     loss |-> IF u.st = "ok" THEN lf.val ELSE Zero,
     trace |-> trace \o b.trace \o u.trace]

\* TrainOnBatch after Backward returned b
TrainUpdate(opt, lf, trace, b) ==
    IF b.st # "ok"
    THEN [st |-> b.st, err |-> b.err, Layers |-> b.Layers, Optimizer |-> opt,
          loss |-> Zero, trace |-> trace \o b.trace]
    ELSE TrainUpdated(lf, trace, b, SeqUpdateWeights(b.Layers, opt))

\* TrainOnBatch after Loss.Backward returned lb
TrainBackward(opt, y, f, lf, trace, lb) ==
    IF lb.err # ""
    THEN [st |-> "error", err |-> lb.err, Layers |-> f.Layers, Optimizer |-> opt,
          loss |-> Zero,
          trace |-> Append(trace, Ev("LossBackward", -1, "", f.out, y, lb.val, 0))]
    ELSE TrainUpdate(opt, lf,
                     Append(trace, Ev("LossBackward", -1, "", f.out, y, lb.val, 0)),
                     SeqBackward(f.Layers, lb.val))

\* mutant: the weights are updated although the loss rejects the targets
TrainLossGradUpdatesOnLossError(opt, y, f, lf) ==
    IF lf.err # ""
    THEN [st |-> "error", err |-> lf.err,
          Layers |-> SeqUpdateWeights(f.Layers, opt).Layers,
          Optimizer |-> SeqUpdateWeights(f.Layers, opt).Optimizer, loss |-> Zero,
          trace |-> Append(f.trace, Ev("LossForward", -1, "", f.out, y, Nil, 0))]
    ELSE TrainBackward(opt, y, f, lf,
                       Append(f.trace, Ev("LossForward", -1, "", f.out, y, lf.val, 0)),
                       MSEBackward(f.out, y))

\* TrainOnBatch after Loss.Forward returned lf
TrainLossGrad(opt, y, f, lf) ==
    IF lf.err # ""
    THEN [st |-> "error", err |-> lf.err, Layers |-> f.Layers, Optimizer |-> opt,
          loss |-> Zero,
          trace |-> Append(f.trace, Ev("LossForward", -1, "", f.out, y, Nil, 0))]
    ELSE TrainBackward(opt, y, f, lf,
                       Append(f.trace, Ev("LossForward", -1, "", f.out, y, lf.val, 0)),
                       MSEBackward(f.out, y))

\* TrainOnBatch after Forward returned f
TrainLoss(opt, y, f) ==
    IF f.st # "ok"
    THEN [st |-> f.st, err |-> f.err, Layers |-> f.Layers, Optimizer |-> opt,
          loss |-> Zero, trace |-> f.trace]
    ELSE TrainLossGrad(opt, y, f, MSEForward(f.out, y))

\* Sequential.TrainOnBatch: [st, err, Layers, Optimizer, loss, trace]
TrainOnBatchOp(layers, opt, X, y) == TrainLoss(opt, y, SeqForward(layers, X))

\* the rows lo+1 .. hi of m, copied cell by cell into NewMatrix(hi-lo, cols)
\* mutant: every batch is copied from the first rows of the data set
BatchOfFirstRows(m, lo, hi) ==
    [Rows |-> hi - lo, Cols |-> m.Cols,
     Data |-> MakeSlice([j \in 1..(hi - lo) |->
                 MakeSlice([k \in 1..m.Cols |-> m.Data[j][k]])])]

BatchOf(m, lo, hi) ==
    [Rows |-> hi - lo, Cols |-> m.Cols,
     Data |-> MakeSlice([j \in 1..(hi - lo) |->
                 MakeSlice([k \in 1..m.Cols |-> m.Data[lo + j][k]])])]

\* the batch copy indexes X.Data[j][k] and y.Data[j][k] for i <= j < end
BatchCopyPanics(X, y, lo, hi) ==
    \E j \in (lo + 1)..hi :
        \/ \E k \in 1..X.Cols : ~InRange(X, j, k)
        \/ \E k \in 1..y.Cols : ~InRange(y, j, k)

\* Sequential.Fit from batch offset i of epoch `epoch` on, for batchSize >= 1:
\* [st, err, Layers, Optimizer, trace].  The event of a TrainOnBatch call
\* carries the epoch as layer and the offset i as t, and is followed by the
\* events of that call.  The average loss is only printed.
RECURSIVE FitLoop(_, _, _, _, _, _, _, _, _)

\* mutant: the loop goes on to the next batch after a failed one
FitTrainedContinues(X, y, epochs, batchSize, epoch, i, trace, batchX, batchY, r) ==
    FitLoop(r.Layers, r.Optimizer, X, y, epochs, batchSize, epoch, i + batchSize,
            Append(trace, Ev("TrainOnBatch", epoch, "", batchX, batchY,
                             IF r.st = "ok" THEN r.loss ELSE Nil, i))
            \o r.trace)

\* the outcome r of TrainOnBatch(batchX, batchY)
FitTrained(X, y, epochs, batchSize, epoch, i, trace, batchX, batchY, r) ==
    IF r.st # "ok"
    THEN [st |-> r.st, err |-> r.err, Layers |-> r.Layers, Optimizer |-> r.Optimizer,
          trace |-> Append(trace, Ev("TrainOnBatch", epoch, "", batchX, batchY, Nil, i))
                    \o r.trace]
    ELSE FitLoop(r.Layers, r.Optimizer, X, y, epochs, batchSize, epoch, i + batchSize,
                 Append(trace, Ev("TrainOnBatch", epoch, "", batchX, batchY, r.loss, i))
                 \o r.trace)

\* the batch of the rows i+1 .. end
FitBatch(layers, opt, X, y, epochs, batchSize, epoch, i, trace, end) ==
    IF BatchCopyPanics(X, y, i, end)
    THEN [st |-> "panic", err |-> "", Layers |-> layers, Optimizer |-> opt,
          trace |-> trace]
    ELSE FitTrained(X, y, epochs, batchSize, epoch, i, trace,
                    BatchOf(X, i, end), BatchOf(y, i, end),
                    TrainOnBatchOp(layers, opt, BatchOf(X, i, end), BatchOf(y, i, end)))

FitLoop(layers, opt, X, y, epochs, batchSize, epoch, i, trace) ==
    IF epoch >= epochs
    THEN [st |-> "ok", err |-> "", Layers |-> layers, Optimizer |-> opt, trace |-> trace]
    ELSE IF i >= X.Rows
    THEN FitLoop(layers, opt, X, y, epochs, batchSize, epoch + 1, 0, trace)
    ELSE FitBatch(layers, opt, X, y, epochs, batchSize, epoch, i, trace,
                  IF i + batchSize > X.Rows THEN X.Rows ELSE i + batchSize)

FitOp(layers, opt, X, y, epochs, batchSize) ==
    FitLoop(layers, opt, X, y, epochs, batchSize, 0, 0, <<>>)

\* mutant: Predict runs on a copy of the layers and leaves their caches alone
PredictOpKeepsCaches(layers, X) == [SeqForward(layers, X) EXCEPT !.Layers = layers]

\* Sequential.Predict: [st, err, Layers, out, trace]
PredictOp(layers, X) == SeqForward(layers, X)

\* Evaluate after Loss.Forward returned lf
EvaluateLoss(y, f, lf) ==
    [st |-> IF lf.err = "" THEN "ok" ELSE "error", err |-> lf.err,
     Layers |-> f.Layers, loss |-> lf.val,
     trace |-> Append(f.trace, Ev("LossForward", -1, "", f.out, y,
                                   IF lf.err = "" THEN lf.val ELSE Nil, 0))]

\* Evaluate after Predict returned f
EvaluatePredictions(y, f) ==
    IF f.st # "ok"
    THEN [st |-> f.st, err |-> f.err, Layers |-> f.Layers, loss |-> Zero,
          trace |-> f.trace]
    ELSE EvaluateLoss(y, f, MSEForward(f.out, y))

\* Sequential.Evaluate: [st, err, Layers, loss, trace]
EvaluateOp(layers, X, y) == EvaluatePredictions(y, PredictOp(layers, X))

(***************************************************************************)
(* Tensor3D and the convolution layer.  ConvLayer.Forward yields           *)
(* [st, err, out] like a layer operation.  Indices count from 0 as in the  *)
(* code; Data and Filters are sequences, so index i is element i + 1.      *)
(***************************************************************************)
NewTensor3D(channels, height, width) ==
    [Channels |-> channels, Height |-> height, Width |-> width,
     Data |-> MakeSlice([c \in 1..channels |-> MakeSlice([h \in 1..height |->
                 MakeSlice([w \in 1..width |-> Zero])])])]

\* NewConvLayer with the weights drawn by rand.Float64 given as `filters`
NewConvLayer(numFilters, inChannels, filterSize, stride, padding, filters) ==
    [kind |-> "Conv", NumFilters |-> numFilters, FilterSize |-> filterSize,
     Stride |-> stride, Padding |-> padding, InChannels |-> inChannels,
     Filters |-> filters,
     Bias |-> MakeSlice([f \in 1..numFilters |-> Zero])]

\* Go's integer division, which truncates toward zero (b > 0)
IntDiv(a, b) == IF a >= 0 THEN a \div b ELSE -((-a) \div b)

\* make panics on a negative length: NewTensor3D panics when it reaches a
\* make with one
NewTensor3DPanics(channels, height, width) ==
    \/ channels < 0
    \/ channels > 0 /\ height < 0
    \/ channels > 0 /\ height > 0 /\ width < 0

\* mutant: the filter is read transposed
ConvAddTransposedFilter(conv, input, f, c, fh, fw, inH, inW, sum) ==
    IF inH >= 0 /\ inH < input.Height /\ inW >= 0 /\ inW < input.Width
    THEN FAdd(sum, FMul(input.Data[c + 1][inH + 1][inW + 1],
                        conv.Filters[f + 1][c + 1][fw + 1][fh + 1]))
    ELSE sum

\* lines 95-97: the term of input cell (inH, inW) of channel c
ConvAdd(conv, input, f, c, fh, fw, inH, inW, sum) ==
    IF inH >= 0 /\ inH < input.Height /\ inW >= 0 /\ inW < input.Width
    THEN FAdd(sum, FMul(input.Data[c + 1][inH + 1][inW + 1],
                        conv.Filters[f + 1][c + 1][fh + 1][fw + 1]))
    ELSE sum

\* the loops over c, fh and fw, k counting their iterations
RECURSIVE ConvLoop(_, _, _, _, _, _, _)
ConvLoop(conv, input, f, outH, outW, k, sum) ==
    IF k >= conv.InChannels * conv.FilterSize * conv.FilterSize THEN sum
    ELSE ConvLoop(conv, input, f, outH, outW, k + 1,
                  ConvAdd(conv, input, f,
                          k \div (conv.FilterSize * conv.FilterSize),
                          (k \div conv.FilterSize) % conv.FilterSize,
                          k % conv.FilterSize,
                          outH * conv.Stride
                              + ((k \div conv.FilterSize) % conv.FilterSize)
                              - conv.Padding,
                          outW * conv.Stride + (k % conv.FilterSize) - conv.Padding,
                          sum))

ConvOutput(conv, input, outHeight, outWidth) ==
    IF NewTensor3DPanics(conv.NumFilters, outHeight, outWidth)
    THEN [st |-> "panic", err |-> "", out |-> Nil]
    ELSE [st |-> "ok", err |-> "",
          out |-> [Channels |-> conv.NumFilters, Height |-> outHeight,
                   Width |-> outWidth,
                   Data |-> MakeSlice([f \in 1..conv.NumFilters |->
                       MakeSlice([oh \in 1..outHeight |->
                           MakeSlice([ow \in 1..outWidth |->
                               ConvLoop(conv, input, f - 1, oh - 1, ow - 1, 0,
                                        conv.Bias[f])])])])]]

ConvForward(conv, input) ==
    IF input.Channels # conv.InChannels
    THEN [st |-> "error",
          err |-> "input channels mismatch: got " \o Itoa(input.Channels)
                  \o ", expected " \o Itoa(conv.InChannels),
          out |-> Nil]
    ELSE IF conv.Stride = 0
    THEN [st |-> "panic", err |-> "", out |-> Nil]
    ELSE ConvOutput(conv, input,
             IntDiv(input.Height - conv.FilterSize + 2 * conv.Padding, conv.Stride) + 1,
             IntDiv(input.Width - conv.FilterSize + 2 * conv.Padding, conv.Stride) + 1)

(***************************************************************************)
(* The program: one compiled Sequential model and the calls made on it.    *)
(***************************************************************************)
VARIABLES
    Layers,     \* Sequential.Layers
    Optimizer,  \* Sequential.Optimizer
    call,       \* the last call on the model: its name, arguments and outcome
    trace,      \* the events of the last call
    calls,      \* the number of calls made
    updates     \* the number of Optimizer.Update calls made since construction

vars == <<Layers, Optimizer, call, trace, calls, updates>>

ConstMatrix(rows, cols, v) ==
    [Rows |-> rows, Cols |-> cols,
     Data |-> MakeSlice([i \in 1..rows |-> MakeSlice([j \in 1..cols |-> v])])]

\* every rows x cols matrix over vals
MatricesOver(rows, cols, vals) ==
    {[Rows |-> rows, Cols |-> cols, Data |-> d] : d \in [1..rows -> [1..cols -> vals]]}

\* a data set whose row i holds base + i - 1 in every column
RampMatrix(rows, cols, base) ==
    [Rows |-> rows, Cols |-> cols,
     Data |-> MakeSlice([i \in 1..rows |-> MakeSlice([j \in 1..cols |-> F(base + i - 1)])])]

\* the matrices passed as inputs and as gradients
Inputs == {ConstMatrix(r, c, F(1)) : r \in 1..MaxRows, c \in 1..MaxCols}

\* the matrices passed as targets
Targets == {ConstMatrix(r, c, Zero) : r \in 1..MaxRows, c \in 1..MaxCols}

\* the values rand.NormFloat64() * scale gives the weights of a Dense layer
InitWeights == {F(1), FDec(-5, -1)}

Dense(inputSize, outputSize, w) ==
    NewDense(inputSize, outputSize, ConstMatrix(inputSize, outputSize, w))

\* the layer lists built by Add
Archs ==
    UNION {{ <<Dense(1, 1, w), NewReLULayer, Dense(1, 1, w)>>,
             <<Dense(1, 2, w), NewSoftmaxLayer>>,
             <<Dense(1, 2, w), NewReLULayer>>,
             <<Dense(1, 1, w), Dense(2, 1, w)>> } : w \in InitWeights}

\* the optimizers passed to Compile
Optimizers == {NewAdamOptimizer(FDec(1, -2)), NewSGD(FDec(1, -1), FDec(9, -1))}

NoCall ==
    [name |-> "none", st |-> "ok", err |-> "", arg |-> Nil, arg2 |-> Nil, ret |-> Nil,
     epochs |-> 0, batchSize |-> 0]

Init ==
    /\ Layers \in Archs
    /\ Optimizer \in Optimizers
    /\ call = NoCall
    /\ trace = <<>>
    /\ calls = 0
    /\ updates = 0

\* a panic ends the program
CanCall == call.st # "panic" /\ calls < MaxCalls

\* the number of Update events of a trace
CountUpdates(tr) == Cardinality({k \in 1..Len(tr) : tr[k].op = "Update"})

Forward(X) ==
    /\ CanCall
    /\ \E r \in {SeqForward(Layers, X)} :
           /\ Layers' = r.Layers
           /\ call' = [NoCall EXCEPT !.name = "Forward", !.st = r.st, !.err = r.err,
                                     !.arg = X, !.ret = r.out]
           /\ trace' = r.trace
    /\ calls' = calls + 1
    /\ UNCHANGED <<Optimizer, updates>>

Backward(gradOutput) ==
    /\ CanCall
    /\ \E r \in {SeqBackward(Layers, gradOutput)} :
           /\ Layers' = r.Layers
           /\ call' = [NoCall EXCEPT !.name = "Backward", !.st = r.st, !.err = r.err,
                                     !.arg = gradOutput]
           /\ trace' = r.trace
    /\ calls' = calls + 1
    /\ UNCHANGED <<Optimizer, updates>>

UpdateWeights ==
    /\ CanCall
    /\ \E r \in {SeqUpdateWeights(Layers, Optimizer)} :
           /\ Layers' = r.Layers
           /\ Optimizer' = r.Optimizer
           /\ call' = [NoCall EXCEPT !.name = "UpdateWeights", !.st = r.st]
           /\ trace' = r.trace
           /\ updates' = updates + CountUpdates(r.trace)
    /\ calls' = calls + 1

TrainOnBatch(X, y) ==
    /\ CanCall
    /\ \E r \in {TrainOnBatchOp(Layers, Optimizer, X, y)} :
           /\ Layers' = r.Layers
           /\ Optimizer' = r.Optimizer
           /\ call' = [NoCall EXCEPT !.name = "TrainOnBatch", !.st = r.st, !.err = r.err,
                                     !.arg = X, !.arg2 = y,
                                     !.ret = IF r.st = "ok" THEN r.loss ELSE Nil]
           /\ trace' = r.trace
           /\ updates' = updates + CountUpdates(r.trace)
    /\ calls' = calls + 1

Fit(X, y, epochs, batchSize) ==
    /\ CanCall
    /\ \E r \in {FitOp(Layers, Optimizer, X, y, epochs, batchSize)} :
           /\ Layers' = r.Layers
           /\ Optimizer' = r.Optimizer
           /\ call' = [NoCall EXCEPT !.name = "Fit", !.st = r.st, !.err = r.err,
                                     !.arg = X, !.arg2 = y,
                                     !.epochs = epochs, !.batchSize = batchSize]
           /\ trace' = r.trace
           /\ updates' = updates + CountUpdates(r.trace)
    /\ calls' = calls + 1

Predict(X) ==
    /\ CanCall
    /\ \E r \in {PredictOp(Layers, X)} :
           /\ Layers' = r.Layers
           /\ call' = [NoCall EXCEPT !.name = "Predict", !.st = r.st, !.err = r.err,
                                     !.arg = X, !.ret = r.out]
           /\ trace' = r.trace
    /\ calls' = calls + 1
    /\ UNCHANGED <<Optimizer, updates>>

Evaluate(X, y) ==
    /\ CanCall
    /\ \E r \in {EvaluateOp(Layers, X, y)} :
           /\ Layers' = r.Layers
           /\ call' = [NoCall EXCEPT !.name = "Evaluate", !.st = r.st, !.err = r.err,
                                     !.arg = X, !.arg2 = y,
                                     !.ret = IF r.st = "ok" THEN r.loss ELSE Nil]
           /\ trace' = r.trace
    /\ calls' = calls + 1
    /\ UNCHANGED <<Optimizer, updates>>

Next ==
    \/ \E X \in Inputs : Forward(X)
    \/ \E g \in Inputs : Backward(g)
    \/ UpdateWeights
    \/ \E X \in Inputs, y \in Targets : TrainOnBatch(X, y)
    \/ \E X \in Inputs, y \in Targets : Fit(X, y, 1, 1)
    \/ \E X \in Inputs : Predict(X)
    \/ \E X \in Inputs, y \in Targets : Evaluate(X, y)

Spec == Init /\ [][Next]_vars

(***************************************************************************)
(* Training runs.  SpecFit calls Fit on data sets of 0..MaxSamples rows    *)
(* whose row i holds the value i in X and i - 1 in y, so that every sample *)
(* and its target can be told apart.                                       *)
(***************************************************************************)
FitArchs == {<<Dense(1, 1, w), NewReLULayer>> : w \in InitWeights}

InitFit ==
    /\ Layers \in FitArchs
    /\ Optimizer \in Optimizers
    /\ call = NoCall
    /\ trace = <<>>
    /\ calls = 0
    /\ updates = 0

NextFit ==
    \E n \in 0..MaxSamples, cx \in 1..MaxCols, cy \in 1..MaxCols,
       epochs \in 0..MaxEpochs, batchSize \in 1..MaxBatch :
        Fit(RampMatrix(n, cx, 1), RampMatrix(n, cy, 0), epochs, batchSize)

SpecFit == InitFit /\ [][NextFit]_vars

(***************************************************************************)
(* Fit step by step.  SpecFitRun starts inside one call of Fit, before the *)
(* first test of the epoch loop, and takes one step per TrainOnBatch call, *)
(* per end of an epoch and for the return; call.epoch and call.i are the   *)
(* loop variables epoch and i.  Fit runs alone and without suspension, so  *)
(* a step that stays enabled is eventually taken.                          *)
(***************************************************************************)
\* mutant: the offset advances by one row
NextOffsetByOne(i, batchSize) == i + 1

\* i += batchSize
NextOffset(i, batchSize) == i + batchSize

RunningFit(X, y, epochs, batchSize) ==
    [name |-> "Fit", st |-> "running", err |-> "", arg |-> X, arg2 |-> y, ret |-> Nil,
     epochs |-> epochs, batchSize |-> batchSize, epoch |-> 0, i |-> 0]

InitFitRun ==
    /\ Layers \in FitArchs
    /\ Optimizer \in Optimizers
    /\ call \in {RunningFit(RampMatrix(n, cx, 1), RampMatrix(n, cy, 0), epochs, batchSize) :
                    n \in 0..MaxSamples, cx \in 1..MaxCols, cy \in 1..MaxCols,
                    epochs \in 0..MaxEpochs, batchSize \in 1..MaxBatch}
    /\ trace = <<>>
    /\ calls = 0
    /\ updates = 0

\* lines 152-158: the outcome r of TrainOnBatch(batchX, batchY)
FitRunTrained(batchX, batchY, r) ==
    /\ Layers' = r.Layers
    /\ Optimizer' = r.Optimizer
    /\ call' = IF r.st = "ok"
               THEN [call EXCEPT !.i = NextOffset(call.i, call.batchSize)]
               ELSE [call EXCEPT !.st = r.st, !.err = r.err]
    /\ trace' = Append(trace, Ev("TrainOnBatch", call.epoch, "", batchX, batchY,
                                 IF r.st = "ok" THEN r.loss ELSE Nil, call.i))
                 \o r.trace
    /\ updates' = updates + CountUpdates(r.trace)

\* lines 133-149: the batch of the rows i+1 .. end
FitRunBatch(end) ==
    IF BatchCopyPanics(call.arg, call.arg2, call.i, end)
    THEN /\ call' = [call EXCEPT !.st = "panic"]
         /\ UNCHANGED <<Layers, Optimizer, trace, updates>>
    ELSE \E r \in {TrainOnBatchOp(Layers, Optimizer, BatchOf(call.arg, call.i, end),
                                   BatchOf(call.arg2, call.i, end))} :
             FitRunTrained(BatchOf(call.arg, call.i, end),
                           BatchOf(call.arg2, call.i, end), r)

\* one iteration of the batch loop
FitBatchStep ==
    /\ call.st = "running"
    /\ call.epoch < call.epochs
    /\ call.i < call.arg.Rows
    /\ FitRunBatch(IF call.i + call.batchSize > call.arg.Rows THEN call.arg.Rows
                   ELSE call.i + call.batchSize)
    /\ UNCHANGED calls

\* the batch loop is over: epoch++
FitEpochEnd ==
    /\ call.st = "running"
    /\ call.epoch < call.epochs
    /\ call.i >= call.arg.Rows
    /\ call' = [call EXCEPT !.epoch = call.epoch + 1, !.i = 0]
    /\ UNCHANGED <<Layers, Optimizer, trace, calls, updates>>

\* the epoch loop is over: return nil
FitReturn ==
    /\ call.st = "running"
    /\ call.epoch >= call.epochs
    /\ call' = [call EXCEPT !.st = "ok"]
    /\ calls' = calls + 1
    /\ UNCHANGED <<Layers, Optimizer, trace, updates>>

NextFitRun == FitBatchStep \/ FitEpochEnd \/ FitReturn

\* the guard of FitBatchStep: a batch is left in the epoch
BatchPending ==
    call.st = "running" /\ call.epoch < call.epochs /\ call.i < call.arg.Rows

\* weak fairness of the three steps; for FitBatchStep it is written out,
\* with BatchPending for ENABLED <<FitBatchStep>>_vars
SpecFitRun ==
    /\ InitFitRun /\ [][NextFitRun]_vars
    /\ WF_vars(FitEpochEnd) /\ WF_vars(FitReturn)
    /\ ([]<>(~BatchPending) \/ []<><<FitBatchStep>>_vars)

(***************************************************************************)
(* The loss alone.  SpecMSE draws predictions and targets at the start     *)
(* (call.arg and call.arg2) and applies MSE.Forward and MSE.Backward to    *)
(* them; the trace collects the calls made on the pair.                    *)
(***************************************************************************)
LossValues == {Zero, F(2)}

LossMatrices ==
    UNION {MatricesOver(r, c, LossValues) : r \in 1..MaxRows, c \in 1..MaxCols}

InitMSE ==
    /\ Layers = <<>>
    /\ Optimizer = Nil
    /\ call \in {[NoCall EXCEPT !.arg = P, !.arg2 = T] :
                    P \in LossMatrices, T \in LossMatrices}
    /\ trace = <<>>
    /\ calls = 0
    /\ updates = 0

LossForward ==
    /\ CanCall
    /\ \E r \in {MSEForward(call.arg, call.arg2)} :
           /\ call' = [call EXCEPT !.name = "LossForward",
                                   !.st = IF r.err = "" THEN "ok" ELSE "error",
                                   !.err = r.err,
                                   !.ret = IF r.err = "" THEN r.val ELSE Nil]
           /\ trace' = Append(trace, Ev("LossForward", -1, "", call.arg, call.arg2,
                                        IF r.err = "" THEN r.val ELSE Nil, 0))
    /\ calls' = calls + 1
    /\ UNCHANGED <<Layers, Optimizer, updates>>

LossBackward ==
    /\ CanCall
    /\ \E r \in {MSEBackward(call.arg, call.arg2)} :
           /\ call' = [call EXCEPT !.name = "LossBackward",
                                   !.st = IF r.err = "" THEN "ok" ELSE "error",
                                   !.err = r.err, !.ret = r.val]
           /\ trace' = Append(trace, Ev("LossBackward", -1, "", call.arg, call.arg2,
                                        r.val, 0))
    /\ calls' = calls + 1
    /\ UNCHANGED <<Layers, Optimizer, updates>>

NextMSE == LossForward \/ LossBackward

SpecMSE == InitMSE /\ [][NextMSE]_vars

(***************************************************************************)
(* One ReLU layer alone.  SpecReLU draws an input and a gradient at the    *)
(* start (call.arg and call.arg2) and calls the layer's Forward on the     *)
(* input and its Backward on the gradient, in any order; the trace         *)
(* collects the calls.                                                     *)
(***************************************************************************)
ReLUInputValues == {F(-1), Zero, F(1)}

ReLUGradValues == {Zero, F(2)}

ReLUInputs ==
    UNION {MatricesOver(r, c, ReLUInputValues) : r \in 1..MaxRows, c \in 1..MaxCols}

ReLUGrads ==
    UNION {MatricesOver(r, c, ReLUGradValues) : r \in 1..MaxRows, c \in 1..MaxCols}

InitReLU ==
    /\ Layers = <<NewReLULayer>>
    /\ Optimizer = Nil
    /\ call \in {[NoCall EXCEPT !.arg = input, !.arg2 = grad] :
                    input \in ReLUInputs, grad \in ReLUGrads}
    /\ trace = <<>>
    /\ calls = 0
    /\ updates = 0

ReLULayerForward ==
    /\ CanCall
    /\ \E r \in {LayerForward(Layers[1], call.arg)} :
           /\ Layers' = <<r.layer>>
           /\ call' = [call EXCEPT !.name = "ReLUForward", !.st = r.st, !.err = r.err,
                                   !.ret = r.out]
           /\ trace' = Append(trace, Ev("Forward", 0, "", call.arg, Nil, r.out, 0))
    /\ calls' = calls + 1
    /\ UNCHANGED <<Optimizer, updates>>

ReLULayerBackward ==
    /\ CanCall
    /\ \E r \in {LayerBackward(Layers[1], call.arg2)} :
           /\ Layers' = <<r.layer>>
           /\ call' = [call EXCEPT !.name = "ReLUBackward", !.st = r.st, !.err = r.err,
                                   !.ret = r.out]
           /\ trace' = Append(trace, Ev("Backward", 0, "", call.arg2, Nil, r.out, 0))
    /\ calls' = calls + 1
    /\ UNCHANGED <<Optimizer, updates>>

NextReLU == ReLULayerForward \/ ReLULayerBackward

SpecReLU == InitReLU /\ [][NextReLU]_vars

(***************************************************************************)
(* The SGD optimizer alone.  SpecSGD starts from a fresh SGD, with or      *)
(* without momentum, and calls its Update with identifiers, parameters and *)
(* gradients of any shapes; the trace collects the calls.                  *)
(***************************************************************************)
SGDParamValues == {F(1), FDec(-5, -1)}

SGDGradValues == {FDec(5, -1), F(-2)}

SGDParams == UNION {MatricesOver(1, c, SGDParamValues) : c \in 1..MaxCols}

SGDGrads == UNION {MatricesOver(1, c, SGDGradValues) : c \in 1..MaxCols}

SGDNames == {"w", "b"}

SGDs == {NewSGD(FDec(1, -1), mu) : mu \in {Zero, FDec(9, -1)}}

InitSGD ==
    /\ Layers = <<>>
    /\ Optimizer \in SGDs
    /\ call = NoCall
    /\ trace = <<>>
    /\ calls = 0
    /\ updates = 0

SGDCall(paramName, params, gradients) ==
    /\ CanCall
    /\ \E r \in {SGDUpdate(Optimizer, paramName, params, gradients)} :
           /\ Optimizer' = r.opt
           /\ call' = [call EXCEPT !.name = "Update", !.st = r.st, !.err = "",
                                   !.arg = params, !.arg2 = gradients,
                                   !.ret = r.updated]
           /\ trace' = Append(trace, Ev("Update", -1, paramName, params, gradients,
                                        r.updated, 0))
           /\ updates' = IF r.st = "ok" THEN updates + 1 ELSE updates
    /\ calls' = calls + 1
    /\ UNCHANGED Layers

NextSGD ==
    \E paramName \in SGDNames, params \in SGDParams, gradients \in SGDGrads :
        SGDCall(paramName, params, gradients)

SpecSGD == InitSGD /\ [][NextSGD]_vars

(***************************************************************************)
(* One convolution layer alone.  SpecConv draws a layer, whose Filters and *)
(* Bias the caller has set, and an input tensor at the start (Layers[1]    *)
(* and call.arg) and calls the layer's Forward on the input.               *)
(***************************************************************************)
\* the input whose cell [c][h][w] holds a small integer that varies with
\* each index
RampTensor(channels, height, width) ==
    [Channels |-> channels, Height |-> height, Width |-> width,
     Data |-> MakeSlice([c \in 1..channels |-> MakeSlice([h \in 1..height |->
                 MakeSlice([w \in 1..width |-> F((3 * c + 2 * h + w) % 7)])])])]

ConvInputs ==
    {RampTensor(c, h, w) : c \in 1..MaxChannels, h \in 1..MaxSize, w \in 1..MaxSize}

\* filter banks set by the caller: all ones, or weights -1, 0, 1 that vary
\* with each index
OnesFilters(numFilters, inChannels, filterSize) ==
    MakeSlice([f \in 1..numFilters |-> MakeSlice([c \in 1..inChannels |->
        MakeSlice([i \in 1..filterSize |-> MakeSlice([j \in 1..filterSize |->
            F(1)])])])])

MixedFilters(numFilters, inChannels, filterSize) ==
    MakeSlice([f \in 1..numFilters |-> MakeSlice([c \in 1..inChannels |->
        MakeSlice([i \in 1..filterSize |-> MakeSlice([j \in 1..filterSize |->
            F(((f + c + 2 * i + j) % 3) - 1)])])])])

\* conv.Bias[f] = base * (f + 1), set by the caller
WithBias(conv, base) ==
    [conv EXCEPT !.Bias = MakeSlice([f \in 1..conv.NumFilters |-> F(base * f)])]

ConvLayers ==
    UNION {{WithBias(NewConvLayer(n, c, k, s, p, filters), base) :
               filters \in {OnesFilters(n, c, k), MixedFilters(n, c, k)}} :
           n \in 1..MaxFilters, c \in 1..MaxChannels, k \in 1..MaxFilterSize,
           s \in 0..MaxStride, p \in 0..MaxPadding, base \in {0, 5}}

InitConv ==
    /\ Layers \in {<<conv>> : conv \in ConvLayers}
    /\ Optimizer = Nil
    /\ call \in {[NoCall EXCEPT !.arg = input] : input \in ConvInputs}
    /\ trace = <<>>
    /\ calls = 0
    /\ updates = 0

ConvLayerForward ==
    /\ CanCall
    /\ \E r \in {ConvForward(Layers[1], call.arg)} :
           /\ call' = [call EXCEPT !.name = "ConvForward", !.st = r.st,
                                   !.err = r.err, !.ret = r.out]
           /\ trace' = Append(trace, Ev("ConvForward", 0, "", call.arg, Nil, r.out, 0))
    /\ calls' = calls + 1
    /\ UNCHANGED <<Layers, Optimizer, updates>>

NextConv == ConvLayerForward

SpecConv == InitConv /\ [][NextConv]_vars

(***************************************************************************)
(* One Dense layer alone.  SpecDense starts from a Dense layer, fresh or   *)
(* after one Forward and Backward of a training step, and calls its        *)
(* Forward and Backward on matrices of any shape.                          *)
(***************************************************************************)
DenseArgs ==
    {RampMatrix(r, c, base) : r \in 1..MaxRows, c \in 1..MaxCols, base \in {1, 3}}

FreshDenses ==
    {Dense(i, o, w) : i \in 1..MaxCols, o \in 1..MaxCols, w \in InitWeights}

\* the layer after Forward(input) and Backward(gradOutput)
AfterStep(d, input, gradOutput) ==
    DenseBackward(DenseForward(d, input).layer, gradOutput).layer

UsedDenses ==
    {AfterStep(d, RampMatrix(MaxRows, d.InputSize, 1),
               RampMatrix(MaxRows, d.OutputSize, 2)) : d \in FreshDenses}

InitDense ==
    /\ Layers \in {<<d>> : d \in FreshDenses \cup UsedDenses}
    /\ Optimizer = Nil
    /\ call = NoCall
    /\ trace = <<>>
    /\ calls = 0
    /\ updates = 0

DenseLayerForward(input) ==
    /\ CanCall
    /\ \E r \in {DenseForward(Layers[1], input)} :
           /\ Layers' = <<r.layer>>
           /\ call' = [NoCall EXCEPT !.name = "DenseForward", !.st = r.st,
                                     !.err = r.err, !.arg = input, !.ret = r.out]
           /\ trace' = Append(trace, Ev("Forward", 0, "", input, Nil, r.out, 0))
    /\ calls' = calls + 1
    /\ UNCHANGED <<Optimizer, updates>>

DenseLayerBackward(gradOutput) ==
    /\ CanCall
    /\ \E r \in {DenseBackward(Layers[1], gradOutput)} :
           /\ Layers' = <<r.layer>>
           /\ call' = [NoCall EXCEPT !.name = "DenseBackward", !.st = r.st,
                                     !.err = r.err, !.arg = gradOutput, !.ret = r.out]
           /\ trace' = Append(trace, Ev("Backward", 0, "", gradOutput, Nil, r.out, 0))
    /\ calls' = calls + 1
    /\ UNCHANGED <<Optimizer, updates>>

NextDense ==
    \/ \E input \in DenseArgs : DenseLayerForward(input)
    \/ \E gradOutput \in DenseArgs : DenseLayerBackward(gradOutput)

SpecDense == InitDense /\ [][NextDense]_vars

(***************************************************************************)
(* Helpers of the properties.                                              *)
(***************************************************************************)
\* the parameter slots of a layer list, in the order UpdateWeights visits
\* them: <<Go index of the layer, parameter name>>
RECURSIVE ParamSlots(_, _)
ParamSlots(layers, li) ==
    IF li > Len(layers) THEN <<>>
    ELSE [i \in 1..Len(GetParamNames(layers[li])) |->
             <<li - 1, GetParamNames(layers[li])[i]>>]
         \o ParamSlots(layers, li + 1)

\* the parameter matrices of every layer
ParamsOf(layers) == [li \in 1..Len(layers) |-> GetParams(layers[li])]

\* the Update events of a trace, in order
RECURSIVE UpdateEvents(_)
UpdateEvents(tr) ==
    IF tr = <<>> THEN <<>>
    ELSE IF Head(tr).op = "Update" THEN <<Head(tr)>> \o UpdateEvents(Tail(tr))
    ELSE UpdateEvents(Tail(tr))

\* events lo..hi of the trace are op calls, each succeeding, on the layers
\* first, first + step, ..., each receiving what the one before returned
Chain(tr, lo, hi, op, first, step, input) ==
    \A k \in lo..hi :
        /\ tr[k].op = op
        /\ tr[k].layer = first + step * (k - lo)
        /\ tr[k].ret # Nil
        /\ tr[k].arg = IF k = lo THEN input ELSE tr[k - 1].ret

(***************************************************************************)
(* C1.  A successful TrainOnBatch runs, once each and in this order:       *)
(* Forward of the layers 0..n-1, each receiving the output of the layer    *)
(* before it (the first one X); Loss.Forward and Loss.Backward on the last *)
(* output and y; Backward of the layers n-1..0, each receiving the         *)
(* gradient returned by the layer above it (the last layer the loss        *)
(* gradient); then Optimizer.Update once per parameter of each layer, in   *)
(* layer order.  No Update precedes the return of the last Backward.       *)
(***************************************************************************)
C1_TrainingStepOrder ==
    (call.name = "TrainOnBatch" /\ call.st = "ok") =>
        LET n == Len(Layers)
            slots == ParamSlots(Layers, 1)
        IN  /\ Len(trace) = 2 * n + 2 + Len(slots)
            /\ Chain(trace, 1, n, "Forward", 0, 1, call.arg)
            /\ trace[n + 1].op = "LossForward"
            /\ trace[n + 1].arg = trace[n].ret /\ trace[n + 1].arg2 = call.arg2
            /\ trace[n + 1].ret = call.ret
            /\ trace[n + 2].op = "LossBackward"
            /\ trace[n + 2].arg = trace[n].ret /\ trace[n + 2].arg2 = call.arg2
            /\ Chain(trace, n + 3, 2 * n + 2, "Backward", n - 1, -1, trace[n + 2].ret)
            /\ \A k \in 1..Len(slots) :
                  /\ trace[2 * n + 2 + k].op = "Update"
                  /\ trace[2 * n + 2 + k].layer = slots[k][1]
                  /\ trace[2 * n + 2 + k].arg2 = GetGrads(Layers[slots[k][1] + 1])
                         [IF slots[k][2] = "weights" THEN 1 ELSE 2]

C1_Witness ==
    /\ call.name = "TrainOnBatch" /\ call.st = "ok"
    /\ Len(Layers) = 3
    /\ Len(UpdateEvents(trace)) = 4

(***************************************************************************)
(* C2.  When TrainOnBatch returns an error, every parameter matrix of      *)
(* every layer holds the values it held before the call, the optimizer     *)
(* (accumulator maps, Adam's T) is unchanged and no Optimizer.Update was   *)
(* invoked.                                                                *)
(***************************************************************************)
C2_FailedStepUpdatesNothing ==
    [][(call'.name = "TrainOnBatch" /\ call'.st = "error") =>
          /\ ParamsOf(Layers') = ParamsOf(Layers)
          /\ Optimizer' = Optimizer
          /\ UpdateEvents(trace') = <<>>
          /\ updates' = updates]_vars

C2_Witness ==
    /\ call.name = "TrainOnBatch" /\ call.st = "error"
    /\ updates > 0

(***************************************************************************)
(* C3.  No call on a compiled model of Dense, ReLU and Softmax layers ends *)
(* in a runtime panic: every failure is a returned error.                  *)
(***************************************************************************)
C3_NoPanic == call.st # "panic"

(***************************************************************************)
(* C4.  An error of Sequential.Forward names the lowest failing layer: the *)
(* layers below it ran and succeeded, it was the last layer invoked, and   *)
(* the error text carries its index.  An error of Sequential.Backward      *)
(* names the highest failing layer: the layers above it ran and succeeded, *)
(* it was the last one invoked, and the error text carries its index.      *)
(***************************************************************************)
\* the texts of the errors a layer's Forward and Backward return
ForwardErrors ==
    {"input size mismatch: got " \o Itoa(got) \o ", expected " \o Itoa(want) :
        got \in 0..(MaxCols + 1), want \in 0..(MaxCols + 1)}

BackwardErrors == {"gradient size mismatch"}

C4_ErrorNamesFirstFailingLayer ==
    /\ (call.name = "Forward" /\ call.st = "error") =>
          LET k == Len(trace)
          IN  /\ k >= 1
              /\ Chain(trace, 1, k - 1, "Forward", 0, 1, call.arg)
              /\ trace[k].op = "Forward" /\ trace[k].layer = k - 1
              /\ trace[k].ret = Nil
              /\ trace[k].arg = IF k = 1 THEN call.arg ELSE trace[k - 1].ret
              /\ \E msg \in ForwardErrors :
                    call.err = "error in layer " \o Itoa(k - 1) \o ": " \o msg
    /\ (call.name = "Backward" /\ call.st = "error") =>
          LET k == Len(trace)
              n == Len(Layers)
          IN  /\ k >= 1
              /\ Chain(trace, 1, k - 1, "Backward", n - 1, -1, call.arg)
              /\ trace[k].op = "Backward" /\ trace[k].layer = n - k
              /\ trace[k].ret = Nil
              /\ trace[k].arg = IF k = 1 THEN call.arg ELSE trace[k - 1].ret
              /\ \E msg \in BackwardErrors :
                    call.err = "error in backward pass at layer " \o Itoa(n - k)
                               \o ": " \o msg

\* a Backward that fails below the top layer, after the top layer succeeded
C4_Witness ==
    /\ call.name = "Backward" /\ call.st = "error"
    /\ Len(trace) = 2 /\ trace[2].layer = 0

(***************************************************************************)
(* C5.  The identifiers UpdateWeights hands to the optimizer are           *)
(* "layer_<index>_<paramName>" with <index> the position of the layer in   *)
(* Layers (a layer without parameters still takes a position); two         *)
(* different parameters of the model never share an identifier; and every  *)
(* training step uses the same identifier for the same parameter.          *)
(***************************************************************************)
\* the identifier the claim gives to a parameter slot <<position, name>>
SlotId(slot) == "layer_" \o Itoa(slot[1]) \o "_" \o slot[2]

C5_IdentifierPerLayerPosition ==
    LET slots == ParamSlots(Layers, 1)
        ups == UpdateEvents(trace)
    IN  /\ \A a, b \in 1..Len(slots) : a # b => SlotId(slots[a]) # SlotId(slots[b])
        /\ \A k \in 1..Len(ups) :
              LET slot == slots[((k - 1) % Len(slots)) + 1]
              IN  /\ ups[k].id = SlotId(slot)
                  /\ ups[k].layer = slot[1]
                  /\ ups[k].arg.Rows = GetParams(Layers[slot[1] + 1])
                                          [IF slot[2] = "weights" THEN 1 ELSE 2].Rows
                  /\ ups[k].arg.Cols = GetParams(Layers[slot[1] + 1])
                                          [IF slot[2] = "weights" THEN 1 ELSE 2].Cols

\* a second training step of a model whose middle layer has no parameters
C5_Witness ==
    /\ call.name = "TrainOnBatch" /\ call.st = "ok"
    /\ Len(Layers) = 3 /\ Layers[2].kind = "ReLU"
    /\ updates = 8
    /\ \E k \in 1..Len(trace) : trace[k].id = "layer_2_bias"

(***************************************************************************)
(* C6.  An identifier has an accumulator exactly when Update has been      *)
(* called with it.  The accumulator starts as a zero matrix of the         *)
(* parameter's shape; every later Update with the identifier continues     *)
(* from the stored value, never from a fresh or zeroed one; an Update      *)
(* leaves the accumulators of all other identifiers as they were.          *)
(***************************************************************************)
AccNames(opt) == IF opt.kind = "Adam" THEN {"M", "V"} ELSE {"Velocity"}

\* the accumulator cell a that an Update with gradient g leaves behind
AccCell(opt, which, a, g) ==
    CASE which = "M" ->
            FAdd(FMul(opt.Beta1, a), FMul(FSub(F(1), opt.Beta1), g))
      [] which = "V" ->
            FAdd(FMul(opt.Beta2, a), FMul(FMul(FSub(F(1), opt.Beta2), g), g))
      [] which = "Velocity" ->
            FSub(FMul(opt.Momentum, a), FMul(opt.LearningRate, g))

\* the accumulator after the Update calls evs, starting from acc
RECURSIVE FoldAcc(_, _, _, _)
FoldAcc(opt, which, acc, evs) ==
    IF evs = <<>> THEN acc
    ELSE FoldAcc(opt, which,
                 [acc EXCEPT !.Data =
                     MakeSlice([i \in 1..acc.Rows |-> MakeSlice([j \in 1..acc.Cols |->
                         AccCell(opt, which, acc.Data[i][j],
                                 Head(evs).arg2.Data[i][j])])])],
                 Tail(evs))

EventsOf(tr, id) == SelectSeq(tr, LAMBDA e : e.op = "Update" /\ e.id = id)

ZeroLike(m) == [Rows |-> m.Rows, Cols |-> m.Cols,
                Data |-> MakeSlice([i \in 1..m.Rows |->
                            MakeSlice([j \in 1..m.Cols |-> Zero])])]

AccumulatorStep ==
    LET ids == {trace'[k].id : k \in {k \in 1..Len(trace') : trace'[k].op = "Update"}}
    IN  \A which \in AccNames(Optimizer) :
           LET old == Optimizer[which]
               new == Optimizer'[which]
           IN  /\ DOMAIN new = DOMAIN old \cup ids
               /\ \A id \in DOMAIN new :
                     LET evs == EventsOf(trace', id)
                     IN  new[id] =
                            IF evs = <<>> THEN old[id]
                            ELSE FoldAcc(Optimizer, which,
                                         IF id \in DOMAIN old THEN old[id]
                                         ELSE ZeroLike(evs[1].arg),
                                         evs)

C6_AccumulatorsLazyAndMonotone ==
    /\ \A which \in AccNames(Optimizer) : DOMAIN Optimizer[which] = {}
    /\ [][AccumulatorStep]_vars

\* a second step that continues from a non-zero velocity
C6_Witness ==
    /\ Optimizer.kind = "SGD" /\ calls = 2 /\ updates = 8
    /\ \E k \in 1..Len(trace) :
          /\ trace[k].op = "Update" /\ trace[k].id = "layer_2_weights"
          /\ trace[k].arg2.Data[1][1] # Zero
    /\ "layer_2_weights" \in DOMAIN Optimizer.Velocity
    /\ Optimizer.Velocity["layer_2_weights"].Data[1][1] # Zero

(***************************************************************************)
(* C7.  Adam's T counts the Update calls made on the optimizer: it starts  *)
(* at 0 and every Update adds one.  A call that updates k parameters       *)
(* raises T by k, the i-th of them computes its bias correction with       *)
(* t = T before the call + i, and a successful training step updates every *)
(* parameter matrix of the model once.                                     *)
(***************************************************************************)
AdamStep ==
    Optimizer.kind = "Adam" =>
        LET ups == UpdateEvents(trace')
        IN  /\ Optimizer'.T = Optimizer.T + Len(ups)
            /\ Optimizer'.T = updates'
            /\ \A i \in 1..Len(ups) : ups[i].t = Optimizer.T + i
            /\ \A i, j \in 1..Len(ups) : i # j => ups[i].t # ups[j].t
            /\ (call'.name \in {"TrainOnBatch", "UpdateWeights"} /\ call'.st = "ok")
                  => Len(ups) = Len(ParamSlots(Layers, 1))

C7_AdamCountsUpdateCalls ==
    /\ Optimizer.kind = "Adam" => Optimizer.T = 0 /\ updates = 0
    /\ [][AdamStep]_vars

\* a second training step, whose four updates use t = 5, 6, 7, 8
C7_Witness ==
    /\ Optimizer.kind = "Adam" /\ call.name = "TrainOnBatch" /\ call.st = "ok"
    /\ Optimizer.T = 8
    /\ Len(UpdateEvents(trace)) = 4
    /\ UpdateEvents(trace)[1].t = 5 /\ UpdateEvents(trace)[4].t = 8

(***************************************************************************)
(* C8.  In every epoch of Fit on numSamples >= 1 rows with batchSize >= 1  *)
(* the batches handed to TrainOnBatch are the row ranges                   *)
(* [i, min(i + batchSize, numSamples)) for i = 0, batchSize, 2 batchSize,  *)
(* ..., each sample together with its own target row: all but the last     *)
(* have batchSize rows, the last has 1..batchSize, and put end to end the  *)
(* batches of an epoch are the data set.                                   *)
(***************************************************************************)
BatchEvents(tr) == SelectSeq(tr, LAMBDA e : e.op = "TrainOnBatch")

\* ceil(n / b)
CeilDiv(n, b) == (n + b - 1) \div b

\* the rows of the batches first..last of tb, end to end
RECURSIVE BatchRows(_, _, _, _)
BatchRows(tb, first, last, which) ==
    IF first > last THEN <<>>
    ELSE tb[first][which].Data \o BatchRows(tb, first + 1, last, which)

C8_BatchesPartitionTheRows ==
    (call.name = "Fit" /\ call.st # "panic"
        /\ call.arg.Rows >= 1 /\ call.batchSize >= 1) =>
        LET X == call.arg
            y == call.arg2
            n == X.Rows
            bs == call.batchSize
            nb == CeilDiv(n, bs)
            tb == BatchEvents(trace)
        IN  /\ call.st = "ok" => Len(tb) = call.epochs * nb
            /\ \A k \in 1..Len(tb) :
                  LET epoch == (k - 1) \div nb
                      i == ((k - 1) % nb) * bs
                      end == IF i + bs > n THEN n ELSE i + bs
                  IN  /\ tb[k].layer = epoch /\ tb[k].t = i
                      /\ tb[k].arg.Rows = end - i /\ tb[k].arg2.Rows = end - i
                      /\ tb[k].arg.Cols = X.Cols /\ tb[k].arg2.Cols = y.Cols
                      /\ tb[k].arg.Data = SubSeq(X.Data, i + 1, end)
                      /\ tb[k].arg2.Data = SubSeq(y.Data, i + 1, end)
                      /\ end - i >= 1 /\ end - i <= bs
                      /\ (k % nb # 0) => end - i = bs
            /\ \A e \in 1..(Len(tb) \div nb) :
                  /\ BatchRows(tb, (e - 1) * nb + 1, e * nb, "arg") = X.Data
                  /\ BatchRows(tb, (e - 1) * nb + 1, e * nb, "arg2") = y.Data

\* two epochs over three samples in batches of two: the last batch of each
\* epoch holds one row
C8_Witness ==
    /\ call.name = "Fit" /\ call.st = "ok"
    /\ call.arg.Rows = 3 /\ call.batchSize = 2 /\ call.epochs = 2
    /\ Len(BatchEvents(trace)) = 4
    /\ BatchEvents(trace)[4].arg.Rows = 1
    /\ BatchEvents(trace)[4].t = 2

(***************************************************************************)
(* C9.  As claimed: for predictions [[2]] and targets [[0]] MSE.Forward    *)
(* returns the loss 2.0 and MSE.Backward returns the gradient [[-2.0]].    *)
(***************************************************************************)
P2 == ConstMatrix(1, 1, F(2))

T0 == ConstMatrix(1, 1, Zero)

C9_GradientMinusTwo ==
    \A k \in 1..Len(trace) :
        (trace[k].arg = P2 /\ trace[k].arg2 = T0) =>
            /\ trace[k].op = "LossForward" => trace[k].ret = F(2)
            /\ trace[k].op = "LossBackward" => trace[k].ret = ConstMatrix(1, 1, F(-2))

(***************************************************************************)
(* C9, amended.  For predictions [[2]] and targets [[0]] MSE.Forward       *)
(* returns the loss 2.0 and MSE.Backward returns the gradient [[2.0]],     *)
(* that is -(T - P) / N = (P - T) / N.                                     *)
(***************************************************************************)
C9_GradientPlusTwo ==
    \A k \in 1..Len(trace) :
        (trace[k].arg = P2 /\ trace[k].arg2 = T0) =>
            /\ trace[k].op = "LossForward" => trace[k].ret = F(2)
            /\ trace[k].op = "LossBackward" => trace[k].ret = ConstMatrix(1, 1, F(2))

\* Forward and then Backward have been applied to P = [[2]], T = [[0]]
C9_Witness ==
    /\ call.arg = P2 /\ call.arg2 = T0
    /\ Len(trace) = 2
    /\ trace[1].op = "LossForward" /\ trace[1].ret # Nil
    /\ trace[2].op = "LossBackward" /\ trace[2].ret # Nil

(***************************************************************************)
(* C10.  As claimed: after Forward(input) and Backward(grad) on a ReLU     *)
(* layer, grad shaped like input, at every position the result equals      *)
(* grad[i][j] if and only if input[i][j] > 0, and is 0 wherever            *)
(* input[i][j] <= 0.                                                       *)
(***************************************************************************)
\* Backward(grad) has returned after Forward(input), grad shaped like input
ReLURoundTrip ==
    /\ Len(trace) = 2
    /\ trace[1].op = "Forward" /\ trace[2].op = "Backward"
    /\ trace[2].ret # Nil
    /\ trace[2].arg.Rows = trace[1].arg.Rows
    /\ trace[2].arg.Cols = trace[1].arg.Cols

C10_EqualsGradIffPositive ==
    ReLURoundTrip =>
        LET input == trace[1].arg
            grad == trace[2].arg
            back == trace[2].ret
        IN  \A i \in 1..grad.Rows, j \in 1..grad.Cols :
               /\ (back.Data[i][j] = grad.Data[i][j]) <=> FGt(input.Data[i][j], Zero)
               /\ ~FGt(input.Data[i][j], Zero) => back.Data[i][j] = Zero

(***************************************************************************)
(* C10, amended.  The result has the shape of grad and at every position   *)
(* it is grad[i][j] where input[i][j] > 0 and 0 where input[i][j] <= 0;    *)
(* it equals grad[i][j] if and only if input[i][j] > 0 at every position   *)
(* where grad[i][j] is not 0.                                              *)
(***************************************************************************)
C10_MasksGradient ==
    ReLURoundTrip =>
        LET input == trace[1].arg
            grad == trace[2].arg
            back == trace[2].ret
        IN  /\ back.Rows = grad.Rows /\ back.Cols = grad.Cols
            /\ \A i \in 1..grad.Rows, j \in 1..grad.Cols :
                  /\ back.Data[i][j] = IF FGt(input.Data[i][j], Zero)
                                       THEN grad.Data[i][j] ELSE Zero
                  /\ grad.Data[i][j] # Zero =>
                        ((back.Data[i][j] = grad.Data[i][j])
                            <=> FGt(input.Data[i][j], Zero))

\* a round trip on an input with a positive, a zero and a negative cell and
\* a gradient that is 0 nowhere
C10_Witness ==
    /\ ReLURoundTrip
    /\ trace[1].arg.Rows = 2 /\ trace[1].arg.Cols = 2
    /\ \A v \in ReLUInputValues :
          \E i \in 1..2, j \in 1..2 : trace[1].arg.Data[i][j] = v
    /\ \A i \in 1..2, j \in 1..2 : trace[2].arg.Data[i][j] # Zero

\* the plain gradient step p - lr * g, cell by cell
PlainStep(lr, params, gradients) ==
    [Rows |-> params.Rows, Cols |-> params.Cols,
     Data |-> [i \in 1..params.Rows |-> [j \in 1..params.Cols |->
                 FSub(params.Data[i][j], FMul(lr, gradients.Data[i][j]))]]]

\* C11: with momentum 0, every call of SGD's Update that returns, the first
\* for an identifier and every later one, whatever velocity earlier calls
\* left, returns p - lr * g cell by cell; p = 1.0, g = 0.5 and lr = 0.1
\* give 0.95.
C11_ZeroMomentumIsPlainStep ==
    Optimizer.Momentum = Zero =>
        /\ \A k \in 1..Len(trace) :
               trace[k].ret # Nil =>
                   trace[k].ret = PlainStep(Optimizer.LearningRate,
                                            trace[k].arg, trace[k].arg2)
        /\ \A k \in 1..Len(trace) :
               (/\ trace[k].ret # Nil
                /\ trace[k].arg.Data[1][1] = F(1)
                /\ trace[k].arg2.Data[1][1] = FDec(5, -1))
               => trace[k].ret.Data[1][1] = FDec(95, -2)

\* a second call for the same identifier that finds a non-zero velocity and
\* returns 0.95 for p = 1.0, g = 0.5
C11_Witness ==
    /\ Optimizer.Momentum = Zero
    /\ Len(trace) = 2
    /\ trace[1].id = trace[2].id
    /\ trace[1].ret # Nil /\ trace[2].ret # Nil
    /\ trace[1].arg2.Data[1][1] = F(-2)
    /\ trace[2].arg.Cols = 2
    /\ trace[2].arg.Data[1][1] = F(1)
    /\ trace[2].arg2.Data[1][1] = FDec(5, -1)
    /\ trace[2].ret.Data[1][1] = FDec(95, -2)

\* the integer a float64 holds
IntOf(x) == IF x.e >= 0 THEN x.m * Pow10(x.e) ELSE x.m \div Pow10(-x.e)

\* input[c][h][w], a coordinate outside the input counting as zero
InputAt(input, c, h, w) ==
    IF h >= 0 /\ h < input.Height /\ w >= 0 /\ w < input.Width
    THEN IntOf(input.Data[c + 1][h + 1][w + 1])
    ELSE 0

\* the product of the claim's sum for channel and offsets t = <<c, fh, fw>>
WindowTerm(conv, input, f, oh, ow, t) ==
    InputAt(input, t[1], oh * conv.Stride + t[2] - conv.Padding,
            ow * conv.Stride + t[3] - conv.Padding)
        * IntOf(conv.Filters[f + 1][t[1] + 1][t[2] + 1][t[3] + 1])

RECURSIVE WindowSum(_, _, _, _, _, _)
RECURSIVE WindowSumFrom(_, _, _, _, _, _, _)
\* the sum of the terms of the channels and offsets in S
WindowSum(conv, input, f, oh, ow, S) ==
    IF S = {} THEN 0
    ELSE WindowSumFrom(conv, input, f, oh, ow, S, CHOOSE t \in S : TRUE)

WindowSumFrom(conv, input, f, oh, ow, S, t) ==
    WindowTerm(conv, input, f, oh, ow, t) + WindowSum(conv, input, f, oh, ow, S \ {t})

\* Bias[f] plus the sum over all channels and filter offsets
ExpectedCell(conv, input, f, oh, ow) ==
    F(IntOf(conv.Bias[f + 1])
      + WindowSum(conv, input, f, oh, ow,
                  (0..(conv.InChannels - 1)) \X (0..(conv.FilterSize - 1))
                      \X (0..(conv.FilterSize - 1))))

\* floor((inputSize - FilterSize + 2 Padding) / Stride) + 1
OutSize(conv, inputSize) ==
    ((inputSize - conv.FilterSize + 2 * conv.Padding) \div conv.Stride) + 1

\* the result is the tensor the claim describes
IsConvolution(conv, input, out) ==
    /\ out # Nil
    /\ out.Channels = conv.NumFilters
    /\ out.Height = OutSize(conv, input.Height)
    /\ out.Width = OutSize(conv, input.Width)
    /\ Len(out.Data) = out.Channels
    /\ \A f \in 0..(out.Channels - 1) :
          /\ Len(out.Data[f + 1]) = out.Height
          /\ \A oh \in 0..(out.Height - 1) :
                /\ Len(out.Data[f + 1][oh + 1]) = out.Width
                /\ \A ow \in 0..(out.Width - 1) :
                      out.Data[f + 1][oh + 1][ow + 1]
                          = ExpectedCell(conv, input, f, oh, ow)

\* the spec's example: 1 channel, 4x4, one 2x2 filter of ones, stride 1,
\* padding 0
IsExample(conv, input) ==
    /\ input.Channels = 1 /\ input.Height = 4 /\ input.Width = 4
    /\ conv.NumFilters = 1 /\ conv.InChannels = 1 /\ conv.FilterSize = 2
    /\ conv.Stride = 1 /\ conv.Padding = 0
    /\ conv.Filters = OnesFilters(1, 1, 2)

\* a 3x3 tensor of the 2x2 window sums plus bias
IsWindowSums(conv, input, out) ==
    /\ out # Nil
    /\ out.Channels = 1 /\ out.Height = 3 /\ out.Width = 3
    /\ \A h \in 1..3, w \in 1..3 :
          out.Data[1][h][w] =
              F(IntOf(input.Data[1][h][w]) + IntOf(input.Data[1][h][w + 1])
                + IntOf(input.Data[1][h + 1][w]) + IntOf(input.Data[1][h + 1][w + 1])
                + IntOf(conv.Bias[1]))

\* the filter fits into the padded input along both axes
FilterFits(conv, input) ==
    /\ conv.Stride >= 1
    /\ input.Height + 2 * conv.Padding >= conv.FilterSize
    /\ input.Width + 2 * conv.Padding >= conv.FilterSize

HasShape(m, rows, cols) ==
    /\ m.Rows = rows /\ m.Cols = cols
    /\ Len(m.Data) = rows
    /\ \A i \in 1..rows : Len(m.Data[i]) = cols

\* the i-th parameter and the i-th gradient of a Dense layer have the shape
\* NewDense gave them
DenseShapes(l) ==
    /\ Len(GetParams(l)) = 2
    /\ HasShape(GetParams(l)[1], l.InputSize, l.OutputSize)
    /\ HasShape(GetGrads(l)[1], l.InputSize, l.OutputSize)
    /\ HasShape(GetParams(l)[2], 1, l.OutputSize)
    /\ HasShape(GetGrads(l)[2], 1, l.OutputSize)

ForwardMeetsContract ==
    IF call'.arg.Cols # Layers[1].InputSize
    THEN /\ call'.st = "error"
         /\ call'.ret = Nil
         /\ Layers' = Layers
    ELSE /\ call'.st = "ok"
         /\ HasShape(call'.ret, call'.arg.Rows, Layers[1].OutputSize)
         /\ Layers'[1] = [Layers[1] EXCEPT !.lastInput = call'.arg]

\* the step is a Dense.Backward that meets the claim
BackwardMeetsContract ==
    call'.arg.Cols # Layers[1].OutputSize =>
        /\ call'.st = "error"
        /\ Layers'[1].weightsGrad = Layers[1].weightsGrad
        /\ Layers'[1].biasGrad = Layers[1].biasGrad

\* C14: Dense.Forward with input.Cols # InputSize returns an error and
\* leaves the layer unchanged (cached input, weights, bias, gradients); with
\* input.Cols = InputSize it returns an input.Rows x OutputSize matrix and
\* the cached input becomes this input, nothing else changing.
\* Dense.Backward with gradOutput.Cols # OutputSize returns an error and
\* leaves the cached gradients unchanged.
C14_DenseSizeChecks ==
    [][/\ call'.name = "DenseForward" => ForwardMeetsContract
       /\ call'.name = "DenseBackward" => BackwardMeetsContract]_vars

\* a Forward rejected by a layer that holds the input of an earlier Forward
\* and the gradients of an earlier Backward
C14_Witness ==
    /\ calls = 2 /\ call.name = "DenseForward" /\ call.st = "error"
    /\ trace[1].op = "Forward" /\ trace[1].ret # Nil
    /\ Layers[1].lastInput = trace[1].arg
    /\ Layers[1].lastInput # call.arg
    /\ Layers[1].weightsGrad # NewMatrix(Layers[1].InputSize, Layers[1].OutputSize)

\* the position in tr of its last TrainOnBatch event
LastBatchIndex(tr) ==
    CHOOSE k \in 1..Len(tr) :
        /\ tr[k].op = "TrainOnBatch"
        /\ \A j \in (k + 1)..Len(tr) : tr[j].op # "TrainOnBatch"

\* the parameter matrix of a slot <<Go index of the layer, parameter name>>
ParamOfSlot(layers, slot) ==
    GetParams(layers[slot[1] + 1])[IF slot[2] = "weights" THEN 1 ELSE 2]

\* the parameter holds what the last Update of the call returned for it, or
\* what it held before the call
KeepsLastUpdate(slot, evs) ==
    ParamOfSlot(Layers', slot).Data =
        IF evs = <<>> THEN ParamOfSlot(Layers, slot).Data
        ELSE evs[Len(evs)].ret.Data

\* the step is a Fit that returned the error of its last batch, tb being
\* the batches it ran
FitStoppedAt(tb) ==
    /\ Len(tb) >= 1
    /\ \A k \in 1..Len(tb) : (tb[k].ret = Nil) <=> (k = Len(tb))
    /\ TrainOnBatchOp(Layers', Optimizer', tb[Len(tb)].arg, tb[Len(tb)].arg2).st
           = "error"
    /\ call'.err
           = TrainOnBatchOp(Layers', Optimizer', tb[Len(tb)].arg, tb[Len(tb)].arg2).err
    /\ \A j \in LastBatchIndex(trace')..Len(trace') : trace'[j].op # "Update"
    /\ Len(UpdateEvents(trace')) = (Len(tb) - 1) * Len(ParamSlots(Layers, 1))
    /\ \A k \in 1..Len(ParamSlots(Layers, 1)) :
          KeepsLastUpdate(ParamSlots(Layers, 1)[k],
                          EventsOf(trace', SlotId(ParamSlots(Layers, 1)[k])))
    /\ AccumulatorStep
    /\ AdamStep
    /\ updates' = updates + Len(UpdateEvents(trace'))

\* C15: Fit stops at the first batch whose TrainOnBatch returns an error
\* and returns that error: a failed batch is the last one run, no batch or
\* epoch follows it, it changes no parameter, and the parameters and the
\* optimizer state hold the updates of the batches that succeeded before it.
C15_FitStopsAtFirstFailure ==
    [][call'.name = "Fit" =>
          /\ (\E k \in 1..Len(trace') :
                  trace'[k].op = "TrainOnBatch" /\ trace'[k].ret = Nil)
                 => call'.st \in {"error", "panic"}
          /\ call'.st = "error" => FitStoppedAt(BatchEvents(trace'))]_vars

\* a Fit that fails on a model that successful batches have updated
C15_Witness ==
    /\ calls = 2 /\ call.name = "Fit" /\ call.st = "error"
    /\ updates > 0
    /\ \A w \in InitWeights : Layers[1].Weights # Dense(1, 1, w).Weights
    /\ BatchEvents(trace)[Len(BatchEvents(trace))].ret = Nil

\* what Forward caches in a layer: its output (Softmax) or its input
CacheOf(l) == IF l.kind = "Softmax" THEN l.lastOutput ELSE l.lastInput

\* the layer without its cache
Uncached(l) ==
    IF l.kind = "Softmax" THEN [l EXCEPT !.lastOutput = Nil]
    ELSE [l EXCEPT !.lastInput = Nil]

\* layer k holds the cache of this call's Forward on it, or, when this call
\* did not reach it or its Forward failed, all it held before
CachedByThisCall(k) ==
    IF k <= Len(trace') /\ trace'[k].op = "Forward" /\ trace'[k].ret # Nil
    THEN /\ trace'[k].layer = k - 1
         /\ CacheOf(Layers'[k]) =
                IF Layers[k].kind = "Softmax" THEN trace'[k].ret ELSE trace'[k].arg
    ELSE Layers'[k] = Layers[k]

\* the step changes nothing but the caches of the layers
PredictFrame ==
    /\ Optimizer' = Optimizer
    /\ updates' = updates
    /\ Len(Layers') = Len(Layers)
    /\ \A k \in 1..Len(Layers) :
          /\ Uncached(Layers'[k]) = Uncached(Layers[k])
          /\ GetParams(Layers'[k]) = GetParams(Layers[k])
          /\ GetGrads(Layers'[k]) = GetGrads(Layers[k])
          /\ CachedByThisCall(k)

\* the weight gradient that Backward leaves in Dense layer k is computed
\* from the input the layer received in the call before
GradientFromLastCall(k) ==
    \E j \in 1..Len(trace') :
        /\ trace'[j].op = "Backward" /\ trace'[j].layer = k - 1
        /\ Layers'[k].weightsGrad.Data =
               WeightsGrad([Layers[k] EXCEPT !.lastInput = trace[k].arg],
                           trace'[j].arg, F(trace'[j].arg.Rows))

\* C16: Predict and Evaluate, successful or not, change no parameter
\* matrix, no cached gradient, no accumulator of the optimizer and not
\* Adam's step counter; they change only the cached forward input/output of
\* the layers they ran, so that a Backward issued after a Predict computes
\* its gradients from the activations cached by that Predict.
C16_PredictChangesOnlyCaches ==
    [][/\ call'.name \in {"Predict", "Evaluate"} => PredictFrame
       /\ (/\ call.name \in {"Predict", "Evaluate"} /\ call.st = "ok"
           /\ call'.name = "Backward" /\ call'.st = "ok")
              => \A k \in 1..Len(Layers) :
                     Layers[k].kind = "Dense" => GradientFromLastCall(k)]_vars

\* a Predict on a trained model, whose caches held the batch of the
\* training step before
C16_Witness ==
    /\ calls = 2 /\ call.name = "Predict" /\ call.st = "ok"
    /\ updates > 0
    /\ Len(Layers) = 3
    /\ Layers[1].lastInput = call.arg
    /\ Layers[3].lastInput = trace[3].arg
    /\ call.arg.Rows = 2
    /\ Layers[1].weightsGrad # NewMatrix(1, 1)

\* C17: Fit terminates for every epochs >= 0, numSamples >= 0 and
\* batchSize >= 1; when no training step fails it returns nil after exactly
\* epochs * ceil(numSamples / batchSize) TrainOnBatch calls, and it makes no
\* TrainOnBatch call when epochs = 0 or numSamples = 0.
C17_FitTerminates ==
    /\ <>(call.st # "running")
    /\ [](call.st = "ok" =>
            Len(BatchEvents(trace))
                = call.epochs * CeilDiv(call.arg.Rows, call.batchSize))
    /\ []((\A k \in 1..Len(trace) : trace[k].op = "TrainOnBatch" => trace[k].ret # Nil)
            => Len(BatchEvents(trace))
                  <= call.epochs * CeilDiv(call.arg.Rows, call.batchSize))
    /\ []((call.epochs = 0 \/ call.arg.Rows = 0) => trace = <<>>)

\* Fit has returned nil after two epochs over three samples in batches of
\* two, four TrainOnBatch calls
C17_Witness ==
    /\ call.name = "Fit" /\ call.st = "ok" /\ calls = 1
    /\ call.epochs = 2 /\ call.arg.Rows = 3 /\ call.batchSize = 2
    /\ Len(BatchEvents(trace)) = 4
    /\ call.epoch = 2 /\ call.i = 0

====
